---- MODULE Spec2Model ----
(***************************************************************************)
(* State-machine model of psycopg/pqpath.c: the single path into libpq.    *)
(*                                                                         *)
(* One connection (connectionObject) is shared by the threads of Threads;  *)
(* every thread owns one cursor (cursorObject) on that connection.  The    *)
(* position of thread t inside a pq_* function is th[t].pc; the two locks  *)
(* of the file are explicit: `lock' is conn->lock (a pthread mutex) and    *)
(* `gil' is the interpreter lock moved by the Py_*_ALLOW_THREADS and       *)
(* Py_*BLOCK_THREADS macros.  libpq is the environment: every libpq call   *)
(* is a state in which the thread is inside the call, and the step leaving *)
(* that state draws the outcome of the call.                               *)
(***************************************************************************)
EXTENDS Integers, Sequences, FiniteSets, TLC

VARIABLES
    status,           \* conn->status: "READY" or "BEGIN"
    isolation_level,  \* conn->isolation_level: 0 autocommit, 1, 2
    mark,             \* conn->mark
    critical,         \* conn->critical # NULL
    closed,           \* conn->closed: 0 open, 1 closed, 2 closed needing cleanup
    tpc_xid,          \* conn->tpc_xid # NULL
    async_status,     \* conn->async_status
    async_cursor,     \* conn->async_cursor: owning cursor or NoThread
    protocol,         \* conn->protocol: 2 or 3
    lock,             \* owner of conn->lock, or NoThread
    gil,              \* owner of the interpreter lock, or NoThread
    green,            \* psyco_green(): a wait callback is installed
    connBad,          \* PQstatus(conn->pgconn) # CONNECTION_OK
    txOpen,           \* backend: BEGIN succeeded, no COMMIT/ROLLBACK/ABORT sent since
    asyncBusy,        \* libpq: a query sent by PQsendQuery has results not yet drained
    begin_mark,       \* <<conn->mark>> as it was when pq_begin_locked last
                      \* succeeded; <<>> once pq_abort, pq_reset or a finished
                      \* pq_commit followed
    pgres,            \* pgres[t]: curs->pgres of thread t's cursor
    th                \* th[t]: the call thread t is in, a record:
                      \*   pc        position in the code
                      \*   op        the entry point called
                      \*   async     the async argument of pq_execute
                      \*   cont      where pq_execute_command_locked returns to
                      \*   cmd       the query given to pq_execute_command_locked
                      \*   cmdres    outcome of the last pq_execute_command_locked
                      \*   retvalue  retvalue / ex / res, then the value returned
                      \*   cerr      the `error' local of _pq_copy_in_v3
                      \*   astat     the `async_status' local of pq_execute
                      \*   sent      commands this call has sent to the backend
                      \*   exc       the Python error indicator of the thread
                      \*   status0, mark0, tpc0   conn->status, conn->mark and
                      \*             conn->tpc_xid # NULL when the call was made
                      \*   acur0, astat0   conn->async_cursor and
                      \*             conn->async_status when the call was made
                      \*   fetched   curs->pgres when pq_fetch was entered
                      \*   arg, out  what a function working on strings is
                      \*             given and what it leaves (SpecCritical)

conn_vars == <<status, isolation_level, mark, critical, closed, tpc_xid,
               async_status, async_cursor, protocol>>
env_vars == <<lock, gil, green, connBad, asyncBusy, txOpen, begin_mark>>
vars == <<conn_vars, env_vars, pgres, th>>

(***************************************************************************)
(* Bounds.                                                                 *)
(***************************************************************************)
MaxMark == 3

Threads == {1, 2}

\* The threads that call into the connection.  With one caller every call
\* returns before the next one is made.
Callers == {1}

NoThread == 0

IsoLevels == {0, 1, 2}
Protocols == {2, 3}

(***************************************************************************)
(* The commands of the transaction controller.                             *)
(***************************************************************************)
BeginQuery(iso) ==
    IF iso = 1 THEN "BEGIN; SET TRANSACTION ISOLATION LEVEL READ COMMITTED"
               ELSE "BEGIN; SET TRANSACTION ISOLATION LEVEL SERIALIZABLE"

BeginQueries == {BeginQuery(1), BeginQuery(2)}
EndQueries == {"COMMIT", "ROLLBACK", "ABORT"}

\* PQresultStatus of the result of a query submission.
ResultKinds == {"COMMAND_OK", "TUPLES_OK", "COPY_IN", "COPY_OUT", "FATAL_ERROR"}

\* What PQexec or the wait callback can hand back for a query: no result
\* at all once the session is broken.
QueryOutcomes == IF connBad THEN {"NULL"} ELSE ResultKinds \cup {"NULL"}

\* Outcomes of one command execution, as pq_execute_command_locked tells
\* them apart: COMMAND_OK, another result status, or no result.
CmdOutcomes == IF connBad THEN {"null"} ELSE {"ok", "bad", "null"}

Idle ==
    [pc |-> "idle", op |-> "none", async |-> 0, cont |-> "none",
     cmd |-> "none", cmdres |-> "none", retvalue |-> 0, cerr |-> 0,
     astat |-> "WRITE", sent |-> <<>>, exc |-> "none",
     status0 |-> "READY", mark0 |-> 0, tpc0 |-> FALSE,
     acur0 |-> NoThread, astat0 |-> "NONE",
     fetched |-> "none", arg |-> <<>>, out |-> <<>>]

(***************************************************************************)
(* Initial state: an established, idle connection.                         *)
(***************************************************************************)
Init ==
    /\ status = "READY"
    /\ isolation_level \in IsoLevels
    /\ mark = 0
    /\ critical = FALSE
    /\ closed = 0
    /\ tpc_xid \in BOOLEAN
    /\ async_status = "NONE"
    /\ async_cursor = NoThread
    /\ protocol \in Protocols
    /\ lock = NoThread
    /\ gil = NoThread
    /\ green \in BOOLEAN
    /\ connBad = FALSE
    /\ asyncBusy = FALSE
    /\ txOpen = FALSE
    /\ begin_mark = <<>>
    /\ pgres = [t \in Threads |-> "NULL"]
    /\ th = [t \in Threads |-> Idle]

(***************************************************************************)
(* Calling and returning.                                                  *)
(***************************************************************************)
\* A thread can enter a pq_* function: it runs Python code, so it takes the
\* interpreter lock.  The callers' own guards (connection not closed) are
\* outside this file.
CanEnter(t) ==
    /\ th[t].pc = "idle"
    /\ gil = NoThread
    /\ closed = 0

\* The frame of a fresh call of entry point `name'.
Frame(name) ==
    [Idle EXCEPT !.op = name, !.status0 = status, !.mark0 = mark,
                 !.tpc0 = tpc_xid, !.acur0 = async_cursor,
                 !.astat0 = async_status]

\* Calls that move conn->mark are offered only while the counter is below
\* its bound.
MarkRoom ==
    mark + Cardinality({u \in Threads : th[u].pc # "idle"}) < MaxMark

\* The caller resumes after the function returned; the interpreter lets go
\* of the lock at its next switch.  The locals of the call are dead.
Return(t) ==
    /\ th[t].pc = "done"
    /\ th' = [th EXCEPT ![t] = Idle]
    /\ gil' = IF gil = t THEN NoThread ELSE gil
    /\ begin_mark' = IF th[t].op = "commit" THEN <<>> ELSE begin_mark
    /\ UNCHANGED <<conn_vars, lock, green, connBad, asyncBusy, txOpen, pgres>>

(***************************************************************************)
(* pq_raise / pq_complete_error: the error reported to the caller.         *)
(***************************************************************************)
\* pq_raise marks a connection whose session went bad as closed, needing
\* cleanup.
pq_raise_closed(c) == IF connBad THEN 2 ELSE c

\* The exception pq_complete_error sets after a failed command: pq_raise on
\* the result when there is one, OperationalError otherwise.
pq_complete_error_exc(r) ==
    IF r = "bad" THEN "BackendError" ELSE "OperationalError"

pq_complete_error_closed(r, c) ==
    IF r = "bad" THEN pq_raise_closed(c) ELSE c

(***************************************************************************)
(* pq_execute_command_locked: run a no-result command on a locked          *)
(* connection, without the interpreter lock.                               *)
(***************************************************************************)
\* The backend's transaction after command q ended with outcome r.
BackendTx(q, r, open) ==
    IF q \in BeginQueries /\ r = "ok" THEN TRUE
    ELSE IF q \in EndQueries THEN FALSE
    ELSE open

\* libpq is idle again once the results of the command in progress have
\* been read up to the NULL that ends them: PQexec discards what an earlier
\* query left, the wait callback reads the results of the query it sent.
PQgetResult_drained(done, busy) == IF done THEN FALSE ELSE busy

\* Entry: PQexec directly, or the wait callback with the interpreter lock
\* taken back (PyEval_RestoreThread).
pq_execute_command_locked(t) ==
    /\ th[t].pc = "cmd"
    /\ IF green
       THEN /\ gil = NoThread
            /\ gil' = t
            /\ th' = [th EXCEPT ![t].pc = "cmd_green"]
       ELSE /\ th' = [th EXCEPT ![t].pc = "cmd_PQexec"]
            /\ UNCHANGED gil
    /\ UNCHANGED <<conn_vars, lock, green, connBad, asyncBusy, txOpen,
                   begin_mark, pgres>>

\* PQexec returns.
PQexec_command(t) ==
    /\ th[t].pc = "cmd_PQexec"
    /\ \E r \in CmdOutcomes :
        /\ th' = [th EXCEPT ![t].cmdres = r,
                            ![t].sent = Append(@, th[t].cmd),
                            ![t].pc = th[t].cont]
        /\ txOpen' = BackendTx(th[t].cmd, r, txOpen)
    /\ asyncBusy' = FALSE
    /\ UNCHANGED <<conn_vars, lock, gil, green, connBad, begin_mark, pgres>>

\* psyco_exec_green returns; the interpreter lock is released again
\* (PyEval_SaveThread).
psyco_exec_green_command(t) ==
    /\ th[t].pc = "cmd_green"
    /\ \E r \in CmdOutcomes :
        /\ th' = [th EXCEPT ![t].cmdres = r,
                            ![t].sent = Append(@, th[t].cmd),
                            ![t].pc = th[t].cont]
        /\ txOpen' = BackendTx(th[t].cmd, r, txOpen)
        /\ asyncBusy' = PQgetResult_drained(r # "null", asyncBusy)
    /\ gil' = NoThread
    /\ UNCHANGED <<conn_vars, lock, green, connBad, begin_mark, pgres>>

(***************************************************************************)
(* The tail shared by pq_commit, pq_abort, pq_reset and pq_is_busy:        *)
(*   pthread_mutex_unlock; Py_END_ALLOW_THREADS; conn_notice_process.      *)
(***************************************************************************)
pthread_mutex_unlock(t) ==
    /\ th[t].pc = "unlock"
    /\ lock' = NoThread
    /\ th' = [th EXCEPT ![t].pc = "end_allow"]
    /\ UNCHANGED <<conn_vars, gil, green, connBad, asyncBusy, txOpen,
                   begin_mark, pgres>>

\* The interpreter lock is taken back and notice delivery starts.
Py_END_ALLOW_THREADS(t) ==
    /\ th[t].pc = "end_allow"
    /\ gil = NoThread
    /\ gil' = t
    /\ th' = [th EXCEPT ![t].pc = "notice"]
    /\ UNCHANGED <<conn_vars, lock, green, connBad, asyncBusy, txOpen,
                   begin_mark, pgres>>

(***************************************************************************)
(* pq_begin_locked                                                         *)
(***************************************************************************)
\* A begin that looks at the isolation level only.
pq_begin_locked_ignores_status(iso, st) == iso = 0

pq_begin_locked_skips(iso, st) == iso = 0 \/ st # "READY"

pq_begin_locked_status(r, st) == IF r = "ok" THEN "BEGIN" ELSE st

\* A begin that advances the transaction mark.
pq_begin_locked_bumps_mark(m) == m + 1

pq_begin_locked_mark(m) == m

(***************************************************************************)
(* pq_commit                                                               *)
(***************************************************************************)
pq_commit_skips(iso, st) == iso = 0 \/ st # "BEGIN"

\* A commit that leaves the transaction mark alone.
pq_commit_keeps_mark(m) == m

pq_commit_mark(m) == m + 1

\* A commit that goes back to READY only when COMMIT succeeded.
pq_commit_status_on_success(rv, st) == IF rv = 0 THEN "READY" ELSE st

\* The status pq_commit leaves, whatever the outcome rv of COMMIT.
pq_commit_status(rv, st) == "READY"

pq_commit(t) ==
    /\ CanEnter(t)
    /\ MarkRoom
    /\ IF pq_commit_skips(isolation_level, status)
       THEN /\ gil' = t
            /\ th' = [th EXCEPT ![t] = [Frame("commit") EXCEPT
                          !.pc = "done", !.retvalue = 0]]
       ELSE /\ gil' = NoThread
            /\ th' = [th EXCEPT ![t] = [Frame("commit") EXCEPT
                          !.pc = "commit_lock", !.retvalue = -1]]
    /\ UNCHANGED <<conn_vars, lock, green, connBad, asyncBusy, txOpen,
                   begin_mark, pgres>>

pq_commit_lock(t) ==
    /\ th[t].pc = "commit_lock"
    /\ lock = NoThread
    /\ lock' = t
    /\ mark' = pq_commit_mark(mark)
    /\ th' = [th EXCEPT ![t].cmd = "COMMIT", ![t].cont = "commit_ret",
                        ![t].pc = "cmd"]
    /\ UNCHANGED <<status, isolation_level, critical, closed, tpc_xid,
                   async_status, async_cursor, protocol, gil, green, connBad, asyncBusy,
                   txOpen, begin_mark, pgres>>

pq_commit_ret(t) ==
    /\ th[t].pc = "commit_ret"
    /\ th' = [th EXCEPT ![t].retvalue = IF th[t].cmdres = "ok" THEN 0 ELSE -1,
                        ![t].pc = "unlock"]
    /\ UNCHANGED <<conn_vars, env_vars, pgres>>

\* After conn_notice_process: report the error, set the status, return.
pq_commit_end(t) ==
    /\ th[t].pc = "notice"
    /\ th[t].op = "commit"
    /\ IF th[t].retvalue < 0
       THEN /\ th' = [th EXCEPT ![t].exc = pq_complete_error_exc(th[t].cmdres),
                                ![t].pc = "done"]
            /\ closed' = pq_complete_error_closed(th[t].cmdres, closed)
       ELSE /\ th' = [th EXCEPT ![t].pc = "done"]
            /\ UNCHANGED closed
    /\ status' = pq_commit_status(th[t].retvalue, status)
    /\ UNCHANGED <<isolation_level, mark, critical, tpc_xid, async_status,
                   async_cursor, protocol, env_vars, pgres>>

(***************************************************************************)
(* pq_abort_locked / pq_abort                                              *)
(***************************************************************************)
pq_abort_skips(iso, st) == iso = 0 \/ st # "BEGIN"

pq_abort_locked_status(r, st) == IF r = "ok" THEN "READY" ELSE st

pq_abort(t) ==
    /\ CanEnter(t)
    /\ MarkRoom
    /\ IF pq_abort_skips(isolation_level, status)
       THEN /\ gil' = t
            /\ th' = [th EXCEPT ![t] = [Frame("abort") EXCEPT
                          !.pc = "done", !.retvalue = 0]]
       ELSE /\ gil' = NoThread
            /\ th' = [th EXCEPT ![t] = [Frame("abort") EXCEPT
                          !.pc = "abort_lock", !.retvalue = -1]]
    /\ UNCHANGED <<conn_vars, lock, green, connBad, asyncBusy, txOpen,
                   begin_mark, pgres>>

\* pthread_mutex_lock, then pq_abort_locked up to its command.
pq_abort_lock(t) ==
    /\ th[t].pc = "abort_lock"
    /\ lock = NoThread
    /\ lock' = t
    /\ IF pq_abort_skips(isolation_level, status)
       THEN /\ th' = [th EXCEPT ![t].retvalue = 0, ![t].pc = "unlock"]
            /\ UNCHANGED <<mark, begin_mark>>
       ELSE /\ mark' = mark + 1
            /\ begin_mark' = <<>>
            /\ th' = [th EXCEPT ![t].cmd = "ROLLBACK", ![t].cont = "abort_ret",
                                ![t].pc = "cmd"]
    /\ UNCHANGED <<status, isolation_level, critical, closed, tpc_xid,
                   async_status, async_cursor, protocol, gil, green, connBad, asyncBusy,
                   txOpen, pgres>>

pq_abort_locked_ret(t) ==
    /\ th[t].pc = "abort_ret"
    /\ th' = [th EXCEPT ![t].retvalue = IF th[t].cmdres = "ok" THEN 0 ELSE -1,
                        ![t].pc = "unlock"]
    /\ status' = pq_abort_locked_status(th[t].cmdres, status)
    /\ UNCHANGED <<isolation_level, mark, critical, closed, tpc_xid,
                   async_status, async_cursor, protocol, env_vars, pgres>>

pq_abort_end(t) ==
    /\ th[t].pc = "notice"
    /\ th[t].op = "abort"
    /\ IF th[t].retvalue < 0
       THEN /\ th' = [th EXCEPT ![t].exc = pq_complete_error_exc(th[t].cmdres),
                                ![t].pc = "done"]
            /\ closed' = pq_complete_error_closed(th[t].cmdres, closed)
       ELSE /\ th' = [th EXCEPT ![t].pc = "done"]
            /\ UNCHANGED closed
    /\ UNCHANGED <<status, isolation_level, mark, critical, tpc_xid,
                   async_status, async_cursor, protocol, env_vars, pgres>>

(***************************************************************************)
(* pq_reset_locked / pq_reset                                              *)
(***************************************************************************)
pq_reset_aborts(iso, st) == iso > 0 /\ st = "BEGIN"

pq_reset(t) ==
    /\ CanEnter(t)
    /\ MarkRoom
    /\ gil' = NoThread
    /\ th' = [th EXCEPT ![t] = [Frame("reset") EXCEPT
                  !.pc = "reset_lock", !.retvalue = -1]]
    /\ UNCHANGED <<conn_vars, lock, green, connBad, asyncBusy, txOpen,
                   begin_mark, pgres>>

\* pthread_mutex_lock, then pq_reset_locked up to its first command.
pq_reset_lock(t) ==
    /\ th[t].pc = "reset_lock"
    /\ lock = NoThread
    /\ lock' = t
    /\ mark' = mark + 1
    /\ begin_mark' = <<>>
    /\ IF pq_reset_aborts(isolation_level, status)
       THEN th' = [th EXCEPT ![t].cmd = "ABORT", ![t].cont = "reset_aborted",
                             ![t].pc = "cmd"]
       ELSE th' = [th EXCEPT ![t].cmd = "RESET ALL",
                             ![t].cont = "reset_resetall", ![t].pc = "cmd"]
    /\ UNCHANGED <<status, isolation_level, critical, closed, tpc_xid,
                   async_status, async_cursor, protocol, gil, green, connBad, asyncBusy,
                   txOpen, pgres>>

\* ABORT returned: leave on failure, RESET ALL otherwise.
pq_reset_locked_aborted(t) ==
    /\ th[t].pc = "reset_aborted"
    /\ IF th[t].cmdres # "ok"
       THEN th' = [th EXCEPT ![t].pc = "unlock"]
       ELSE th' = [th EXCEPT ![t].cmd = "RESET ALL",
                             ![t].cont = "reset_resetall", ![t].pc = "cmd"]
    /\ UNCHANGED <<conn_vars, env_vars, pgres>>

\* RESET ALL returned: leave on failure, SET SESSION AUTHORIZATION otherwise.
pq_reset_locked_resetall(t) ==
    /\ th[t].pc = "reset_resetall"
    /\ IF th[t].cmdres # "ok"
       THEN th' = [th EXCEPT ![t].pc = "unlock"]
       ELSE th' = [th EXCEPT ![t].cmd = "SET SESSION AUTHORIZATION DEFAULT",
                             ![t].cont = "reset_setauth", ![t].pc = "cmd"]
    /\ UNCHANGED <<conn_vars, env_vars, pgres>>

\* SET SESSION AUTHORIZATION DEFAULT returned.
pq_reset_locked_setauth(t) ==
    /\ th[t].pc = "reset_setauth"
    /\ IF th[t].cmdres # "ok"
       THEN /\ th' = [th EXCEPT ![t].pc = "unlock"]
            /\ UNCHANGED status
       ELSE /\ th' = [th EXCEPT ![t].retvalue = 0, ![t].pc = "unlock"]
            /\ status' = "READY"
    /\ UNCHANGED <<isolation_level, mark, critical, closed, tpc_xid,
                   async_status, async_cursor, protocol, env_vars, pgres>>

\* After conn_notice_process: report the error, or clear conn->tpc_xid.
pq_reset_end(t) ==
    /\ th[t].pc = "notice"
    /\ th[t].op = "reset"
    /\ IF th[t].retvalue < 0
       THEN /\ th' = [th EXCEPT ![t].exc = pq_complete_error_exc(th[t].cmdres),
                                ![t].pc = "done"]
            /\ closed' = pq_complete_error_closed(th[t].cmdres, closed)
            /\ UNCHANGED tpc_xid
       ELSE /\ th' = [th EXCEPT ![t].pc = "done"]
            /\ tpc_xid' = FALSE
            /\ UNCHANGED closed
    /\ UNCHANGED <<status, isolation_level, mark, critical, async_status,
                   async_cursor, protocol, env_vars, pgres>>

(***************************************************************************)
(* pq_resolve_critical                                                     *)
(***************************************************************************)
\* conn_close (connection_int.c) tears the session down: the connection is
\* closed and PQstatus is no longer CONNECTION_OK.
conn_close_closed(c) == 1

conn_close_bad(b) == TRUE

\* conn->closed after pq_resolve_critical(conn, close): conn_close when
\* close is 1.
pq_resolve_critical_closed(close, c) ==
    IF close = 1 THEN conn_close_closed(c) ELSE c

pq_resolve_critical_bad(close, b) ==
    IF close = 1 THEN conn_close_bad(b) ELSE b

(***************************************************************************)
(* pq_fetch, first part: from the entry to the branch on the result.       *)
(* Run with the interpreter lock held; used by pq_execute and by a direct  *)
(* call.  `f' is the frame the thread runs pq_fetch in.                    *)
(***************************************************************************)
FetchResult_ignores_failure(f, ex) ==
    IF f.op = "execute" THEN 1 - f.async ELSE ex

\* The value handed to the caller of the entry point when pq_fetch ends
\* with ex: pq_execute turns everything but -1 into 1 - async.
FetchResult(f, ex) ==
    IF f.op = "execute" THEN (IF ex = -1 THEN -1 ELSE 1 - f.async) ELSE ex

pq_fetch_start(t, f0) ==
    \* `fetched' keeps what curs->pgres was when pq_fetch was entered
    LET f == [f0 EXCEPT !.fetched = pgres[t]] IN
    CASE pgres[t] = "NULL" ->
            /\ th' = [th EXCEPT ![t] = [f EXCEPT !.pc = "done",
                                          !.retvalue = FetchResult(f, 0)]]
            /\ gil' = t
            /\ UNCHANGED <<pgres, closed>>
      [] pgres[t] = "COMMAND_OK" ->
            /\ th' = [th EXCEPT ![t] = [f EXCEPT !.pc = "notice",
                                                 !.retvalue = 1]]
            /\ pgres' = [pgres EXCEPT ![t] = "NULL"]
            /\ gil' = t
            /\ UNCHANGED closed
      [] pgres[t] = "TUPLES_OK" ->
            \* _pq_fetch_tuples: Py_BEGIN_ALLOW_THREADS
            /\ th' = [th EXCEPT ![t] = [f EXCEPT !.pc = "tuples_lock",
                                                 !.retvalue = 0]]
            /\ gil' = NoThread
            /\ UNCHANGED <<pgres, closed>>
      [] pgres[t] = "COPY_OUT" ->
            \/ \* PyObject_GetAttrString(copyfile, "write") fails
               /\ th' = [th EXCEPT ![t] = [f EXCEPT !.pc = "notice",
                             !.retvalue = -1, !.exc = "CallbackError"]]
               /\ pgres' = [pgres EXCEPT ![t] = "NULL"]
               /\ gil' = t
               /\ UNCHANGED closed
            \/ \* the first PQgetCopyData / PQgetline, interpreter unlocked
               /\ th' = [th EXCEPT ![t] = [f EXCEPT !.retvalue = -1,
                             !.pc = IF protocol = 3 THEN "copy_out_v3_get"
                                                    ELSE "copy_out_get"]]
               /\ gil' = NoThread
               /\ UNCHANGED <<pgres, closed>>
      [] pgres[t] = "COPY_IN" ->
            \/ \* PyObject_GetAttrString(copyfile, "read"/"readline") fails
               /\ th' = [th EXCEPT ![t] = [f EXCEPT !.pc = "notice",
                             !.retvalue = -1, !.exc = "CallbackError"]]
               /\ pgres' = [pgres EXCEPT ![t] = "NULL"]
               /\ gil' = t
               /\ UNCHANGED closed
            \/ \* the first read() / readline() of the source
               /\ th' = [th EXCEPT ![t] = [f EXCEPT !.retvalue = -1,
                             !.cerr = 0,
                             !.pc = IF protocol = 3 THEN "copy_in_v3_read"
                                                    ELSE "copy_in_read"]]
               /\ gil' = t
               /\ UNCHANGED <<pgres, closed>>
      [] OTHER ->
            \* pq_raise(conn, curs, NULL); IFCLEARPGRES
            /\ th' = [th EXCEPT ![t] = [f EXCEPT !.pc = "notice",
                          !.retvalue = -1, !.exc = "BackendError"]]
            /\ pgres' = [pgres EXCEPT ![t] = "NULL"]
            /\ closed' = pq_raise_closed(closed)
            /\ gil' = t

\* pq_fetch called on its own.
pq_fetch(t) ==
    /\ CanEnter(t)
    /\ pq_fetch_start(t, Frame("fetch"))
    /\ UNCHANGED <<status, isolation_level, mark, critical, tpc_xid,
                   async_status, async_cursor, protocol, lock, green, connBad, asyncBusy,
                   txOpen, begin_mark>>

\* A critical check that closes the connection whatever ex is.
pq_fetch_close_always(ex) == 1

\* The `close' pq_fetch gives pq_resolve_critical: 1 when ex is -1.
pq_fetch_close(ex) == IF ex = -1 THEN 1 ELSE 0

\* pq_fetch, last part, after conn_notice_process and
\* conn_notifies_process: the critical check.
pq_fetch_end(t) ==
    /\ th[t].pc = "notice"
    /\ th[t].op \in {"fetch", "execute"}
    /\ IF critical
       THEN /\ th' = [th EXCEPT ![t].exc = "OperationalError",
                                ![t].pc = "done",
                                ![t].retvalue = FetchResult(th[t], -1)]
            /\ closed' = pq_resolve_critical_closed(
                             pq_fetch_close(th[t].retvalue), closed)
            /\ connBad' = pq_resolve_critical_bad(
                             pq_fetch_close(th[t].retvalue), connBad)
            /\ critical' = FALSE
       ELSE /\ th' = [th EXCEPT ![t].pc = "done",
                         ![t].retvalue = FetchResult(th[t], th[t].retvalue)]
            /\ UNCHANGED <<closed, connBad, critical>>
    /\ UNCHANGED <<status, isolation_level, mark, tpc_xid, async_status,
                   async_cursor, protocol, lock, gil, green, asyncBusy,
                   txOpen, begin_mark, pgres>>

(***************************************************************************)
(* _pq_fetch_tuples                                                        *)
(***************************************************************************)
_pq_fetch_tuples_lock(t) ==
    /\ th[t].pc = "tuples_lock"
    /\ lock = NoThread
    /\ lock' = t
    /\ th' = [th EXCEPT ![t].pc = "tuples_locked"]
    /\ UNCHANGED <<conn_vars, gil, green, connBad, asyncBusy, txOpen,
                   begin_mark, pgres>>

\* Py_BLOCK_THREADS: the description and casts tuples are built.
_pq_fetch_tuples_block(t) ==
    /\ th[t].pc = "tuples_locked"
    /\ gil = NoThread
    /\ gil' = t
    /\ th' = [th EXCEPT ![t].pc = "tuples_build"]
    /\ UNCHANGED <<conn_vars, lock, green, connBad, asyncBusy, txOpen,
                   begin_mark, pgres>>

\* Py_UNBLOCK_THREADS: on to the next column, or after the last one
\* pthread_mutex_unlock.
_pq_fetch_tuples_unblock(t) ==
    /\ th[t].pc = "tuples_build"
    /\ gil' = NoThread
    /\ \/ /\ th' = [th EXCEPT ![t].pc = "tuples_locked"]
          /\ UNCHANGED lock
       \/ /\ th' = [th EXCEPT ![t].pc = "end_allow"]
          /\ lock' = NoThread
    /\ UNCHANGED <<conn_vars, green, connBad, asyncBusy, txOpen, begin_mark,
                   pgres>>

(***************************************************************************)
(* The COPY functions.  They run inside pq_fetch; none of them takes       *)
(* conn->lock.                                                             *)
(***************************************************************************)
\* Back in pq_fetch after a copy function returned ret: rowcount = -1, an
\* error left by a callback or by pq_raise turns ex into -1, IFCLEARPGRES.
copy_return_keeps_result(t, ret, e) ==
    /\ th' = [th EXCEPT ![t].exc = e,
                        ![t].retvalue = IF e # "none" THEN -1 ELSE ret,
                        ![t].pc = "notice"]
    /\ UNCHANGED pgres

copy_return(t, ret, e) ==
    /\ th' = [th EXCEPT ![t].exc = e,
                        ![t].retvalue = IF e # "none" THEN -1 ELSE ret,
                        ![t].pc = "notice"]
    /\ pgres' = [pgres EXCEPT ![t] = "NULL"]

\* What PQputCopyData, PQputline, PQputCopyEnd and PQendcopy can report.
SendOutcomes == IF connBad THEN {"fail"} ELSE {"ok", "fail"}

\* The value _pq_copy_in_v3 returns.
_pq_copy_in_v3_ret(error) == IF error = 0 THEN 1 ELSE -1

\* The source's read() returns: a chunk, the empty string, an exception, or
\* something that is no string.
_pq_copy_in_v3_read(t) ==
    /\ th[t].pc = "copy_in_v3_read"
    /\ \/ /\ th' = [th EXCEPT ![t].pc = "copy_in_v3_put"]
          /\ gil' = NoThread
       \/ /\ th' = [th EXCEPT ![t].pc = "copy_in_v3_end"]
          /\ UNCHANGED gil
       \/ /\ th' = [th EXCEPT ![t].cerr = 1, ![t].exc = "CallbackError",
                              ![t].pc = "copy_in_v3_end"]
          /\ UNCHANGED gil
       \/ /\ th' = [th EXCEPT ![t].cerr = 1, ![t].pc = "copy_in_v3_end"]
          /\ UNCHANGED gil
    /\ UNCHANGED <<conn_vars, lock, green, connBad, asyncBusy, txOpen,
                   begin_mark, pgres>>

\* PQputCopyData returns, the interpreter still unlocked.
_pq_copy_in_v3_put(t) ==
    /\ th[t].pc = "copy_in_v3_put"
    /\ \E res \in SendOutcomes :
        th' = [th EXCEPT ![t].cerr = IF res = "fail" THEN 2 ELSE @,
                         ![t].pc = "copy_in_v3_put_end"]
    /\ UNCHANGED <<conn_vars, env_vars, pgres>>

\* Py_END_ALLOW_THREADS after PQputCopyData: next read(), or PQputCopyEnd.
_pq_copy_in_v3_put_end(t) ==
    /\ th[t].pc = "copy_in_v3_put_end"
    /\ gil = NoThread
    /\ gil' = t
    /\ th' = [th EXCEPT ![t].pc = IF th[t].cerr = 2 THEN "copy_in_v3_end"
                                                   ELSE "copy_in_v3_read"]
    /\ UNCHANGED <<conn_vars, lock, green, connBad, asyncBusy, txOpen,
                   begin_mark, pgres>>

\* PQputCopyEnd returns: on -1 pq_raise and closed = 2, else PQgetResult.
_pq_copy_in_v3_end(t) ==
    /\ th[t].pc = "copy_in_v3_end"
    /\ \E res \in SendOutcomes :
        IF res = "fail"
        THEN /\ copy_return(t, _pq_copy_in_v3_ret(th[t].cerr), "BackendError")
             /\ closed' = 2
        ELSE /\ th' = [th EXCEPT ![t].pc = "copy_result",
                          ![t].retvalue = _pq_copy_in_v3_ret(th[t].cerr)]
             /\ pgres' = [pgres EXCEPT ![t] = "NULL"]
             /\ UNCHANGED closed
    /\ UNCHANGED <<status, isolation_level, mark, critical, tpc_xid,
                   async_status, async_cursor, protocol, env_vars>>

\* The loop on PQgetResult that ends every copy function: NULL ends the
\* loop and the function, a fatal result is raised (any other result is
\* cleared and changes nothing).
copy_get_result(t) ==
    /\ th[t].pc = "copy_result"
    /\ \/ /\ copy_return(t, th[t].retvalue, th[t].exc)
          /\ UNCHANGED closed
       \/ /\ th' = [th EXCEPT ![t].exc = "BackendError"]
          /\ closed' = pq_raise_closed(closed)
          /\ UNCHANGED pgres
    /\ UNCHANGED <<status, isolation_level, mark, critical, tpc_xid,
                   async_status, async_cursor, protocol, env_vars>>

\* Protocol 2: the source's readline() returns a line, nothing, or fails.
_pq_copy_in_read(t) ==
    /\ th[t].pc = "copy_in_read"
    /\ \/ /\ th' = [th EXCEPT ![t].pc = "copy_in_put"]
          /\ gil' = NoThread
          /\ UNCHANGED pgres
       \/ /\ th' = [th EXCEPT ![t].pc = "copy_in_end"]
          /\ gil' = NoThread
          /\ UNCHANGED pgres
       \/ /\ copy_return(t, -1, "CallbackError")
          /\ UNCHANGED gil
    /\ UNCHANGED <<conn_vars, lock, green, connBad, asyncBusy, txOpen,
                   begin_mark>>

\* PQputline returns, the interpreter still unlocked.
_pq_copy_in_put(t) ==
    /\ th[t].pc = "copy_in_put"
    /\ \E res \in SendOutcomes :
        th' = [th EXCEPT ![t].cerr = IF res = "fail" THEN 1 ELSE 0,
                         ![t].pc = "copy_in_put_end"]
    /\ UNCHANGED <<conn_vars, env_vars, pgres>>

\* Py_END_ALLOW_THREADS after PQputline: leave when it failed.
_pq_copy_in_put_end(t) ==
    /\ th[t].pc = "copy_in_put_end"
    /\ gil = NoThread
    /\ gil' = t
    /\ IF th[t].cerr # 0
       THEN copy_return(t, -1, th[t].exc)
       ELSE /\ th' = [th EXCEPT ![t].pc = "copy_in_read"]
            /\ UNCHANGED pgres
    /\ UNCHANGED <<conn_vars, lock, green, connBad, asyncBusy, txOpen,
                   begin_mark>>

\* PQputline of the terminator and PQendcopy return.
_pq_copy_in_end(t) ==
    /\ th[t].pc = "copy_in_end"
    /\ th' = [th EXCEPT ![t].pc = "copy_in_end_allow"]
    /\ UNCHANGED <<conn_vars, env_vars, pgres>>

\* Py_END_ALLOW_THREADS, IFCLEARPGRES, then the loop on PQgetResult.
_pq_copy_in_end_allow(t) ==
    /\ th[t].pc = "copy_in_end_allow"
    /\ gil = NoThread
    /\ gil' = t
    /\ th' = [th EXCEPT ![t].pc = "copy_result", ![t].retvalue = 1]
    /\ pgres' = [pgres EXCEPT ![t] = "NULL"]
    /\ UNCHANGED <<conn_vars, lock, green, connBad, asyncBusy, txOpen,
                   begin_mark>>

\* PQgetCopyData returns: a frame, 0, end of copy (-1) or an error (-2).
_pq_copy_out_v3_get(t) ==
    /\ th[t].pc = "copy_out_v3_get"
    /\ \E len \in (IF connBad THEN {-2} ELSE {1, 0, -1, -2}) :
        th' = [th EXCEPT ![t].cerr = len, ![t].pc = "copy_out_v3_get_end"]
    /\ UNCHANGED <<conn_vars, env_vars, pgres>>

\* Py_END_ALLOW_THREADS after PQgetCopyData.
_pq_copy_out_v3_get_end(t) ==
    /\ th[t].pc = "copy_out_v3_get_end"
    /\ gil = NoThread
    /\ gil' = t
    /\ IF th[t].cerr > 0
       THEN /\ th' = [th EXCEPT ![t].pc = "copy_out_v3_write"]
            /\ UNCHANGED <<pgres, closed>>
       ELSE IF th[t].cerr = -2
       THEN /\ copy_return(t, -1, "BackendError")
            /\ closed' = pq_raise_closed(closed)
       ELSE /\ th' = [th EXCEPT ![t].pc = "copy_result", ![t].retvalue = 1]
            /\ pgres' = [pgres EXCEPT ![t] = "NULL"]
            /\ UNCHANGED closed
    /\ UNCHANGED <<status, isolation_level, mark, critical, tpc_xid,
                   async_status, async_cursor, protocol, lock, green, connBad, asyncBusy,
                   txOpen, begin_mark>>

\* The sink's write() returns.
_pq_copy_out_v3_write(t) ==
    /\ th[t].pc = "copy_out_v3_write"
    /\ \/ /\ th' = [th EXCEPT ![t].pc = "copy_out_v3_get"]
          /\ gil' = NoThread
          /\ UNCHANGED pgres
       \/ /\ copy_return(t, -1, "CallbackError")
          /\ UNCHANGED gil
    /\ UNCHANGED <<conn_vars, lock, green, connBad, asyncBusy, txOpen,
                   begin_mark>>

\* Protocol 2: PQgetline returns 0 with a line (0), 0 with the terminator
\* line (2), 1 with a partial line, or EOF (-1).
_pq_copy_out_get(t) ==
    /\ th[t].pc = "copy_out_get"
    /\ \E st \in (IF connBad THEN {-1} ELSE {0, 1, 2, -1}) :
        th' = [th EXCEPT ![t].cerr = st, ![t].pc = "copy_out_get_end"]
    /\ UNCHANGED <<conn_vars, env_vars, pgres>>

\* Py_END_ALLOW_THREADS after PQgetline.
_pq_copy_out_get_end(t) ==
    /\ th[t].pc = "copy_out_get_end"
    /\ gil = NoThread
    /\ gil' = t
    /\ IF th[t].cerr = 2
       THEN /\ th' = [th EXCEPT ![t].pc = "copy_out_endcopy"]
            /\ UNCHANGED pgres
       ELSE IF th[t].cerr \in {0, 1}
       THEN /\ th' = [th EXCEPT ![t].pc = "copy_out_write"]
            /\ UNCHANGED pgres
       ELSE copy_return(t, th[t].cerr, th[t].exc)
    /\ UNCHANGED <<conn_vars, lock, green, connBad, asyncBusy, txOpen,
                   begin_mark>>

\* The sink's write() returns; on failure the function returns status.
_pq_copy_out_write(t) ==
    /\ th[t].pc = "copy_out_write"
    /\ \/ /\ th' = [th EXCEPT ![t].pc = "copy_out_get"]
          /\ gil' = NoThread
          /\ UNCHANGED pgres
       \/ /\ copy_return(t, th[t].cerr, "CallbackError")
          /\ UNCHANGED gil
    /\ UNCHANGED <<conn_vars, lock, green, connBad, asyncBusy, txOpen,
                   begin_mark>>

\* PQendcopy returns; IFCLEARPGRES, then the loop on PQgetResult.
_pq_copy_out_endcopy(t) ==
    /\ th[t].pc = "copy_out_endcopy"
    /\ \E res \in SendOutcomes :
        th' = [th EXCEPT ![t].pc = "copy_result",
                         ![t].retvalue = IF res = "ok" THEN 1 ELSE -1]
    /\ pgres' = [pgres EXCEPT ![t] = "NULL"]
    /\ UNCHANGED <<conn_vars, env_vars>>

(***************************************************************************)
(* pq_execute                                                              *)
(***************************************************************************)
\* A pq_execute that does not look at PQstatus.
pq_execute_check_critical_only(crit, bad) ==
    IF crit THEN "critical" ELSE "ok"

\* The two checks pq_execute makes before it takes the mutex.
pq_execute_check(crit, bad) ==
    IF crit THEN "critical" ELSE IF bad THEN "bad" ELSE "ok"

\* Entry, with the interpreter lock: the critical and PQstatus checks, then
\* Py_BEGIN_ALLOW_THREADS.
pq_execute(t) ==
    /\ CanEnter(t)
    /\ \E a \in {0, 1} :
        LET f == [Frame("execute") EXCEPT !.async = a] IN
        IF pq_execute_check(critical, connBad) = "critical"
        THEN \* pq_resolve_critical(curs->conn, 1)
             /\ th' = [th EXCEPT ![t] = [f EXCEPT !.exc = "OperationalError",
                                           !.retvalue = -1, !.pc = "done"]]
             /\ closed' = pq_resolve_critical_closed(1, closed)
             /\ connBad' = pq_resolve_critical_bad(1, connBad)
             /\ critical' = FALSE
             /\ gil' = t
        ELSE IF pq_execute_check(critical, connBad) = "bad"
        THEN /\ th' = [th EXCEPT ![t] = [f EXCEPT !.exc = "OperationalError",
                                           !.retvalue = -1, !.pc = "done"]]
             /\ gil' = t
             /\ UNCHANGED <<closed, connBad, critical>>
        ELSE /\ th' = [th EXCEPT ![t] = [f EXCEPT !.pc = "execute_lock"]]
             /\ gil' = NoThread
             /\ UNCHANGED <<closed, connBad, critical>>
    /\ UNCHANGED <<status, isolation_level, mark, tpc_xid, async_status,
                   async_cursor, protocol, lock, green, asyncBusy, txOpen,
                   begin_mark, pgres>>

\* pthread_mutex_lock, then pq_begin_locked up to its command.
pq_execute_lock(t) ==
    /\ th[t].pc = "execute_lock"
    /\ lock = NoThread
    /\ lock' = t
    /\ IF pq_begin_locked_skips(isolation_level, status)
       THEN th' = [th EXCEPT ![t].pc = "execute_query"]
       ELSE th' = [th EXCEPT ![t].cmd = BeginQuery(isolation_level),
                             ![t].cont = "begin_ret", ![t].pc = "cmd"]
    /\ UNCHANGED <<conn_vars, gil, green, connBad, asyncBusy, txOpen,
                   begin_mark, pgres>>

\* pq_begin_locked after its command: the status follows the outcome; on
\* failure pq_execute unlocks the connection.
pq_begin_locked_ret(t) ==
    /\ th[t].pc = "begin_ret"
    /\ status' = pq_begin_locked_status(th[t].cmdres, status)
    /\ mark' = pq_begin_locked_mark(mark)
    /\ IF th[t].cmdres = "ok"
       THEN /\ th' = [th EXCEPT ![t].pc = "execute_query"]
            /\ begin_mark' = <<mark>>
            /\ UNCHANGED lock
       ELSE /\ th' = [th EXCEPT ![t].pc = "execute_begin_failed"]
            /\ lock' = NoThread
            /\ UNCHANGED begin_mark
    /\ UNCHANGED <<isolation_level, critical, closed, tpc_xid, async_status,
                   async_cursor, protocol, gil, green, connBad, asyncBusy, txOpen, pgres>>

\* Py_BLOCK_THREADS; pq_complete_error; return -1.
pq_execute_begin_failed(t) ==
    /\ th[t].pc = "execute_begin_failed"
    /\ gil = NoThread
    /\ gil' = t
    /\ th' = [th EXCEPT ![t].exc = pq_complete_error_exc(th[t].cmdres),
                        ![t].retvalue = -1, ![t].pc = "done"]
    /\ closed' = pq_complete_error_closed(th[t].cmdres, closed)
    /\ UNCHANGED <<status, isolation_level, mark, critical, tpc_xid,
                   async_status, async_cursor, protocol, lock, green, connBad, asyncBusy,
                   txOpen, begin_mark, pgres>>

\* The query is submitted: PQexec or the wait callback (Py_BLOCK_THREADS)
\* when async is 0, PQsendQuery when it is 1.
pq_execute_query(t) ==
    /\ th[t].pc = "execute_query"
    /\ pgres' = [pgres EXCEPT ![t] = "NULL"]
    /\ IF th[t].async = 0
       THEN IF green
            THEN /\ gil = NoThread
                 /\ gil' = t
                 /\ th' = [th EXCEPT ![t].pc = "execute_green"]
            ELSE /\ th' = [th EXCEPT ![t].pc = "execute_PQexec"]
                 /\ UNCHANGED gil
       ELSE /\ th' = [th EXCEPT ![t].pc = "execute_PQsendQuery"]
            /\ UNCHANGED gil
    /\ UNCHANGED <<conn_vars, lock, green, connBad, asyncBusy, txOpen,
                   begin_mark>>

\* PQexec returns the result, or NULL; both ways the connection is
\* unlocked next.
pq_execute_PQexec(t) ==
    /\ th[t].pc = "execute_PQexec"
    /\ \E r \in QueryOutcomes :
        /\ pgres' = [pgres EXCEPT ![t] = r]
        /\ th' = [th EXCEPT ![t].sent = Append(@, "QUERY"),
                            ![t].pc = IF r = "NULL" THEN "execute_null"
                                                    ELSE "execute_end"]
    /\ lock' = NoThread
    /\ asyncBusy' = FALSE
    /\ UNCHANGED <<conn_vars, gil, green, connBad, txOpen, begin_mark>>

\* psyco_exec_green returns the result, or NULL with or without an
\* exception; Py_UNBLOCK_THREADS, and the connection is unlocked next.
pq_execute_green(t) ==
    /\ th[t].pc = "execute_green"
    /\ \E r \in QueryOutcomes, e \in {"none", "CallbackError"} :
        /\ e # "none" => r = "NULL"
        /\ pgres' = [pgres EXCEPT ![t] = r]
        /\ th' = [th EXCEPT ![t].sent = Append(@, "QUERY"),
                            ![t].exc = e,
                            ![t].pc = IF r = "NULL" THEN "execute_null"
                                                    ELSE "execute_end"]
        /\ asyncBusy' = PQgetResult_drained(r # "NULL", asyncBusy)
    /\ gil' = NoThread
    /\ lock' = NoThread
    /\ UNCHANGED <<conn_vars, green, connBad, txOpen, begin_mark>>

\* Py_BLOCK_THREADS after a NULL result: OperationalError unless an
\* exception is set already; return -1.
pq_execute_null(t) ==
    /\ th[t].pc = "execute_null"
    /\ gil = NoThread
    /\ gil' = t
    /\ th' = [th EXCEPT ![t].exc = IF @ = "none" THEN "OperationalError" ELSE @,
                        ![t].retvalue = -1, ![t].pc = "done"]
    /\ UNCHANGED <<conn_vars, lock, green, connBad, asyncBusy, txOpen,
                   begin_mark, pgres>>

\* PQsendQuery refuses a query while the results of an earlier one are not
\* drained.
PQsendQuery_outcomes == IF asyncBusy THEN {"fail"} ELSE SendOutcomes

\* PQsendQuery returns 0 (unlock, then fail) or 1 (PQflush next).
pq_execute_PQsendQuery(t) ==
    /\ th[t].pc = "execute_PQsendQuery"
    /\ \E res \in PQsendQuery_outcomes :
        IF res = "fail"
        THEN /\ th' = [th EXCEPT ![t].pc = "execute_send_failed"]
             /\ lock' = NoThread
             /\ UNCHANGED asyncBusy
        ELSE /\ th' = [th EXCEPT ![t].sent = Append(@, "QUERY"),
                                 ![t].pc = "execute_PQflush"]
             /\ asyncBusy' = TRUE
             /\ UNCHANGED lock
    /\ UNCHANGED <<conn_vars, gil, green, connBad, txOpen, begin_mark, pgres>>

\* Py_BLOCK_THREADS; OperationalError; return -1.
pq_execute_send_failed(t) ==
    /\ th[t].pc = "execute_send_failed"
    /\ gil = NoThread
    /\ gil' = t
    /\ th' = [th EXCEPT ![t].exc = "OperationalError",
                        ![t].retvalue = -1, ![t].pc = "done"]
    /\ UNCHANGED <<conn_vars, lock, green, connBad, asyncBusy, txOpen,
                   begin_mark, pgres>>

\* What PQflush can report: 0 all sent, 1 data pending, -1 error.
FlushOutcomes == IF connBad THEN {-1} ELSE {0, 1, -1}

pq_execute_async_status_read(ret) == "READ"

\* The local async_status after PQflush returned 0 or 1.
pq_execute_async_status(ret) == IF ret = 0 THEN "READ" ELSE "WRITE"

\* PQflush returns: 0 or 1 choose the async status and unlock; anything
\* else is `return -1' on the spot.  cerr keeps ret.
pq_execute_PQflush(t) ==
    /\ th[t].pc = "execute_PQflush"
    /\ \E ret \in FlushOutcomes :
        IF ret \in {0, 1}
        THEN /\ th' = [th EXCEPT ![t].astat = pq_execute_async_status(ret),
                                 ![t].cerr = ret,
                                 ![t].pc = "execute_end"]
             /\ lock' = NoThread
        ELSE /\ th' = [th EXCEPT ![t].retvalue = -1, ![t].pc = "done"]
             /\ UNCHANGED lock
    /\ UNCHANGED <<conn_vars, gil, green, connBad, asyncBusy, txOpen,
                   begin_mark, pgres>>

\* Py_END_ALLOW_THREADS, then pq_fetch when async is 0, else the cursor
\* is recorded as the asynchronous one and 1 - async is returned.
pq_execute_end(t) ==
    /\ th[t].pc = "execute_end"
    /\ gil = NoThread
    /\ IF th[t].async = 0
       THEN /\ pq_fetch_start(t, th[t])
            /\ UNCHANGED <<async_status, async_cursor>>
       ELSE /\ async_status' = th[t].astat
            /\ async_cursor' = t
            /\ th' = [th EXCEPT ![t].retvalue = 1 - th[t].async,
                                ![t].pc = "done"]
            /\ gil' = t
            /\ UNCHANGED <<pgres, closed>>
    /\ UNCHANGED <<status, isolation_level, mark, critical, tpc_xid,
                   protocol, lock, green, connBad, asyncBusy, txOpen, begin_mark>>

(***************************************************************************)
(* pq_is_busy, pq_flush                                                    *)
(***************************************************************************)
pq_is_busy(t) ==
    /\ CanEnter(t)
    /\ gil' = NoThread
    /\ th' = [th EXCEPT ![t] = [Frame("is_busy") EXCEPT !.pc = "is_busy_lock"]]
    /\ UNCHANGED <<conn_vars, lock, green, connBad, asyncBusy, txOpen,
                   begin_mark, pgres>>

pq_is_busy_lock(t) ==
    /\ th[t].pc = "is_busy_lock"
    /\ lock = NoThread
    /\ lock' = t
    /\ th' = [th EXCEPT ![t].pc = "is_busy_PQconsumeInput"]
    /\ UNCHANGED <<conn_vars, gil, green, connBad, asyncBusy, txOpen,
                   begin_mark, pgres>>

\* PQconsumeInput returns 0 (unlock, then fail) or 1, and then PQisBusy
\* gives res; the shared tail follows.
pq_is_busy_PQconsumeInput(t) ==
    /\ th[t].pc = "is_busy_PQconsumeInput"
    /\ \/ th' = [th EXCEPT ![t].pc = "is_busy_failed"]
       \/ /\ ~connBad
          /\ \E res \in {0, 1} :
              th' = [th EXCEPT ![t].retvalue = res, ![t].pc = "end_allow"]
    /\ lock' = NoThread
    /\ UNCHANGED <<conn_vars, gil, green, connBad, asyncBusy, txOpen,
                   begin_mark, pgres>>

\* Py_BLOCK_THREADS; OperationalError; return -1.
pq_is_busy_failed(t) ==
    /\ th[t].pc = "is_busy_failed"
    /\ gil = NoThread
    /\ gil' = t
    /\ th' = [th EXCEPT ![t].exc = "OperationalError",
                        ![t].retvalue = -1, ![t].pc = "done"]
    /\ UNCHANGED <<conn_vars, lock, green, connBad, asyncBusy, txOpen,
                   begin_mark, pgres>>

\* After conn_notice_process and conn_notifies_process: return res.
pq_is_busy_end(t) ==
    /\ th[t].pc = "notice"
    /\ th[t].op = "is_busy"
    /\ th' = [th EXCEPT ![t].pc = "done"]
    /\ UNCHANGED <<conn_vars, env_vars, pgres>>

pq_flush(t) ==
    /\ CanEnter(t)
    /\ gil' = NoThread
    /\ th' = [th EXCEPT ![t] = [Frame("flush") EXCEPT !.pc = "flush_lock"]]
    /\ UNCHANGED <<conn_vars, lock, green, connBad, asyncBusy, txOpen,
                   begin_mark, pgres>>

pq_flush_lock(t) ==
    /\ th[t].pc = "flush_lock"
    /\ lock = NoThread
    /\ lock' = t
    /\ th' = [th EXCEPT ![t].pc = "flush_PQflush"]
    /\ UNCHANGED <<conn_vars, gil, green, connBad, asyncBusy, txOpen,
                   begin_mark, pgres>>

\* PQflush returns res and the connection is unlocked.
pq_flush_PQflush(t) ==
    /\ th[t].pc = "flush_PQflush"
    /\ \E res \in FlushOutcomes :
        th' = [th EXCEPT ![t].retvalue = res, ![t].pc = "flush_end"]
    /\ lock' = NoThread
    /\ UNCHANGED <<conn_vars, gil, green, connBad, asyncBusy, txOpen,
                   begin_mark, pgres>>

\* Py_END_ALLOW_THREADS; return res.
pq_flush_end(t) ==
    /\ th[t].pc = "flush_end"
    /\ gil = NoThread
    /\ gil' = t
    /\ th' = [th EXCEPT ![t].pc = "done"]
    /\ UNCHANGED <<conn_vars, lock, green, connBad, asyncBusy, txOpen,
                   begin_mark, pgres>>

(***************************************************************************)
(* pq_clear_async, pq_get_last_result: both read results until PQgetResult *)
(* gives NULL; neither moves a lock.                                       *)
(***************************************************************************)
pq_clear_async(t) ==
    /\ CanEnter(t)
    /\ gil' = t
    /\ th' = [th EXCEPT ![t] = [Frame("clear_async") EXCEPT
                                   !.pc = "clear_async_PQgetResult"]]
    /\ UNCHANGED <<conn_vars, lock, green, connBad, asyncBusy, txOpen,
                   begin_mark, pgres>>

\* PQgetResult gave NULL: Py_XDECREF; conn->async_cursor = NULL.
pq_clear_async_end(t) ==
    /\ th[t].pc = "clear_async_PQgetResult"
    /\ asyncBusy' = PQgetResult_drained(TRUE, asyncBusy)
    /\ async_cursor' = NoThread
    /\ th' = [th EXCEPT ![t].pc = "done"]
    /\ UNCHANGED <<status, isolation_level, mark, critical, closed, tpc_xid,
                   async_status, protocol, lock, gil, green, connBad, txOpen,
                   begin_mark, pgres>>

pq_get_last_result(t) ==
    /\ CanEnter(t)
    /\ gil' = t
    /\ th' = [th EXCEPT ![t] = [Frame("get_last_result") EXCEPT
                                   !.pc = "get_last_result_PQgetResult"]]
    /\ UNCHANGED <<conn_vars, lock, green, connBad, asyncBusy, txOpen,
                   begin_mark, pgres>>

\* PQgetResult gave NULL: the last result is handed to the caller.
pq_get_last_result_end(t) ==
    /\ th[t].pc = "get_last_result_PQgetResult"
    /\ asyncBusy' = PQgetResult_drained(TRUE, asyncBusy)
    /\ th' = [th EXCEPT ![t].pc = "done"]
    /\ UNCHANGED <<conn_vars, lock, gil, green, connBad, txOpen, begin_mark,
                   pgres>>

(***************************************************************************)
(* The environment: libpq and the backend.                                 *)
(***************************************************************************)
\* Positions inside a libpq call that talks to the backend.
WirePcs ==
    {"cmd_PQexec", "execute_PQexec", "execute_PQsendQuery", "execute_PQflush",
     "is_busy_PQconsumeInput", "flush_PQflush",
     "copy_in_v3_put", "copy_in_v3_end", "copy_result",
     "copy_in_put", "copy_in_end",
     "copy_out_v3_get", "copy_out_get", "copy_out_endcopy"}

\* Positions inside the wait callback, which drives the session itself.
GreenPcs == {"cmd_green", "execute_green"}

\* The session breaks: PQstatus is CONNECTION_BAD from now on.
ConnectionLost ==
    /\ ~connBad
    /\ connBad' = TRUE
    /\ UNCHANGED <<conn_vars, lock, gil, green, asyncBusy, txOpen, begin_mark,
                   pgres, th>>

\* pq_set_critical: libpq's notice receiver stores a message while some
\* thread is reading from the backend.
pq_set_critical ==
    /\ ~critical
    /\ \E t \in Threads : th[t].pc \in WirePcs \cup GreenPcs
    /\ critical' = TRUE
    /\ UNCHANGED <<status, isolation_level, mark, closed, tpc_xid,
                   async_status, async_cursor, protocol, env_vars, pgres, th>>

(***************************************************************************)
(* The specifications.                                                     *)
(***************************************************************************)
Step(t) ==
    \/ pq_execute_command_locked(t) \/ PQexec_command(t)
    \/ psyco_exec_green_command(t)
    \/ pthread_mutex_unlock(t) \/ Py_END_ALLOW_THREADS(t)
    \/ pq_commit(t) \/ pq_commit_lock(t) \/ pq_commit_ret(t)
    \/ pq_commit_end(t)
    \/ pq_abort(t) \/ pq_abort_lock(t) \/ pq_abort_locked_ret(t)
    \/ pq_abort_end(t)
    \/ pq_reset(t) \/ pq_reset_lock(t) \/ pq_reset_locked_aborted(t)
    \/ pq_reset_locked_resetall(t) \/ pq_reset_locked_setauth(t)
    \/ pq_reset_end(t)
    \/ pq_execute(t) \/ pq_execute_lock(t) \/ pq_begin_locked_ret(t)
    \/ pq_execute_begin_failed(t) \/ pq_execute_query(t)
    \/ pq_execute_PQexec(t) \/ pq_execute_green(t) \/ pq_execute_null(t)
    \/ pq_execute_PQsendQuery(t) \/ pq_execute_send_failed(t)
    \/ pq_execute_PQflush(t) \/ pq_execute_end(t)
    \/ pq_fetch(t) \/ pq_fetch_end(t)
    \/ _pq_fetch_tuples_lock(t) \/ _pq_fetch_tuples_block(t)
    \/ _pq_fetch_tuples_unblock(t)
    \/ _pq_copy_in_v3_read(t) \/ _pq_copy_in_v3_put(t)
    \/ _pq_copy_in_v3_put_end(t) \/ _pq_copy_in_v3_end(t)
    \/ copy_get_result(t)
    \/ _pq_copy_in_read(t) \/ _pq_copy_in_put(t) \/ _pq_copy_in_put_end(t)
    \/ _pq_copy_in_end(t) \/ _pq_copy_in_end_allow(t)
    \/ _pq_copy_out_v3_get(t) \/ _pq_copy_out_v3_get_end(t)
    \/ _pq_copy_out_v3_write(t)
    \/ _pq_copy_out_get(t) \/ _pq_copy_out_get_end(t)
    \/ _pq_copy_out_write(t) \/ _pq_copy_out_endcopy(t)
    \/ pq_is_busy(t) \/ pq_is_busy_lock(t) \/ pq_is_busy_PQconsumeInput(t)
    \/ pq_is_busy_failed(t) \/ pq_is_busy_end(t)
    \/ pq_flush(t) \/ pq_flush_lock(t) \/ pq_flush_PQflush(t)
    \/ pq_flush_end(t)
    \/ pq_clear_async(t) \/ pq_clear_async_end(t)
    \/ pq_get_last_result(t) \/ pq_get_last_result_end(t)
    \/ Return(t)

Next == (\E t \in Callers : Step(t)) \/ ConnectionLost \/ pq_set_critical

Spec == Init /\ [][Next]_vars

(***************************************************************************)
(* pq_set_critical / pq_resolve_critical on the stored message.            *)
(*                                                                         *)
(* A C string is the sequence of its characters; conn->critical is either  *)
(* NULL, written <<>>, or a non-empty string (pq_set_critical stores no    *)
(* empty one).  In SpecCritical th[t].arg is the connection a function is  *)
(* given, [critical, closed], and th[t].out what the function leaves:      *)
(* [critical, closed, exc, text], text being the text of the error set.    *)
(***************************************************************************)
MaxMsgLen == 7

MsgChars == {"a", "b"}

Msgs == UNION {[1..n -> MsgChars] : n \in 0..MaxMsgLen}

\* conn->critical after pq_set_critical(conn, msg): PQerrorMessage stands
\* in for a NULL msg, and an empty message stores NULL.
pq_set_critical_stored(isnull, msg, errmsg) ==
    LET m == IF isnull THEN errmsg ELSE msg
    IN IF m # <<>> THEN m ELSE <<>>

\* What a read past the end of the stored string can give.
OutOfBoundsTexts == {m \in Msgs : Len(m) <= 1}

\* The text pq_resolve_critical raises: the string at &conn->critical[6].
\* Index 6 is inside the string or on its terminator only when the message
\* has 6 characters or more.
pq_resolve_critical_texts(crit) ==
    IF Len(crit) >= 6 THEN {SubSeq(crit, 7, Len(crit))}
                      ELSE OutOfBoundsTexts

\* A pq_resolve_critical without its test of conn->critical.
pq_resolve_critical_unguarded(crit) == TRUE

\* pq_resolve_critical does something only `if (conn->critical)'.
pq_resolve_critical_acts(crit) == crit # <<>>

InitCritical ==
    /\ status = "READY"
    /\ isolation_level = 1
    /\ mark = 0
    /\ critical = FALSE
    /\ closed = 0
    /\ tpc_xid = FALSE
    /\ async_status = "NONE"
    /\ async_cursor = NoThread
    /\ protocol = 3
    /\ lock = NoThread
    /\ gil = NoThread
    /\ green = FALSE
    /\ connBad = FALSE
    /\ asyncBusy = FALSE
    /\ txOpen = FALSE
    /\ begin_mark = <<>>
    /\ pgres = [t \in Threads |-> "NULL"]
    /\ \E c \in Msgs :
        th = [t \in Threads |->
                IF t \in Callers
                THEN [Idle EXCEPT !.arg = [critical |-> c, closed |-> 0]]
                ELSE Idle]

\* pq_set_critical(conn, msg) with PQerrorMessage giving errmsg.
critical_set(t) ==
    /\ th[t].pc = "idle"
    /\ \E isnull \in BOOLEAN, msg \in Msgs, errmsg \in OutOfBoundsTexts :
        /\ isnull => msg = <<>>
        /\ th' = [th EXCEPT ![t].op = "set_critical", ![t].pc = "done",
                     ![t].out = [critical |->
                                    pq_set_critical_stored(isnull, msg, errmsg),
                                 closed |-> th[t].arg.closed,
                                 exc |-> "none", text |-> <<>>]]
    /\ UNCHANGED <<conn_vars, env_vars, pgres>>

\* pq_resolve_critical(conn, close).
critical_resolve(t) ==
    /\ th[t].pc = "idle"
    /\ \E close \in {0, 1} :
        IF pq_resolve_critical_acts(th[t].arg.critical)
        THEN \E text \in pq_resolve_critical_texts(th[t].arg.critical) :
                th' = [th EXCEPT ![t].op = "resolve_critical",
                          ![t].pc = "done",
                          ![t].out = [critical |-> <<>>,
                                      closed |-> pq_resolve_critical_closed(
                                                     close, th[t].arg.closed),
                                      exc |-> "OperationalError",
                                      text |-> text]]
        ELSE th' = [th EXCEPT ![t].op = "resolve_critical", ![t].pc = "done",
                        ![t].out = [critical |-> th[t].arg.critical,
                                    closed |-> th[t].arg.closed,
                                    exc |-> "none", text |-> <<>>]]
    /\ UNCHANGED <<conn_vars, env_vars, pgres>>

\* The function returned: the connection is as the function left it.
critical_return(t) ==
    /\ th[t].pc = "done"
    /\ th' = [th EXCEPT ![t] = [Idle EXCEPT !.arg =
                 [critical |-> th[t].out.critical,
                  closed |-> th[t].out.closed]]]
    /\ UNCHANGED <<conn_vars, env_vars, pgres>>

NextCritical ==
    \E t \in Callers : critical_set(t) \/ critical_resolve(t)
                       \/ critical_return(t)

SpecCritical == InitCritical /\ [][NextCritical]_vars

(***************************************************************************)
(* Properties.                                                             *)
(***************************************************************************)
\* Positions in which caller-visible code runs: notice and notification
\* delivery, the COPY source's read/readline, the COPY sink's write, and
\* the wait callback.
CallbackPcs ==
    {"notice", "copy_in_v3_read", "copy_in_read", "copy_out_v3_write",
     "copy_out_write"} \cup GreenPcs

\* Positions inside a libpq call that blocks until the backend answers:
\* PQexec, PQgetResult, PQputCopyData, PQputCopyEnd, PQputline, PQendcopy,
\* PQgetCopyData, PQgetline.
BlockingPcs ==
    {"cmd_PQexec", "execute_PQexec", "copy_in_v3_put", "copy_in_v3_end",
     "copy_result", "copy_in_put", "copy_in_end", "copy_out_v3_get",
     "copy_out_get", "copy_out_endcopy"}

\* Positions in which the query of pq_execute is being submitted.
SubmitPcs == {"execute_PQexec", "execute_green", "execute_PQsendQuery"}

\* C1: when an operation has returned, the calling thread does not hold
\* the connection mutex, on every return path.
C1_MutexReleasedOnReturn ==
    \A t \in Threads : th[t].pc = "done" => lock # t

\* C2: every interaction with the wire session is performed while the
\* calling thread holds the connection mutex.
C2_WireCallsHoldMutex ==
    \A t \in Threads : th[t].pc \in WirePcs => lock = t

\* C3: whenever caller-visible code runs (notice delivery, the COPY
\* callbacks, the wait callback), the thread running it does not hold the
\* connection mutex.
C3_CallbacksRunUnlocked ==
    \A t \in Threads : th[t].pc \in CallbackPcs => lock # t

\* C4: the interpreter lock is not held during a blocking wire call, it is
\* held while the description and casts tuples are built, and it is held
\* whenever an operation returns.
C4_InterpreterLockDiscipline ==
    \A t \in Threads :
        /\ th[t].pc \in BlockingPcs => gil # t
        /\ th[t].pc = "tuples_build" => gil = t
        /\ th[t].pc = "done" => gil = t

\* C5: between calls, status BEGIN implies that the backend has an open
\* transaction; and pq_execute never submits a query with isolation level
\* # 0 while the backend has no open transaction.
C5_BeginMeansOpenTransaction ==
    /\ (\A t \in Threads : th[t].pc = "idle") /\ status = "BEGIN" => txOpen
    /\ \A t \in Threads :
        th[t].pc \in SubmitPcs /\ isolation_level # 0 => txOpen

\* C6: a successful begin directly followed by a commit leaves status READY
\* and mark exactly one above its value before the begin.
C6_BeginCommitMarksOnce ==
    \A t \in Threads :
        th[t].pc = "done" /\ th[t].op = "commit" /\ begin_mark # <<>>
        => status = "READY" /\ mark = begin_mark[1] + 1

C6_Witness ==
    \E t \in Threads :
        /\ th[t].pc = "done" /\ th[t].op = "commit"
        /\ begin_mark # <<>> /\ mark = begin_mark[1] + 1
        /\ th[t].sent = <<"COMMIT">> /\ status = "READY"

\* C7: pq_begin_locked sends nothing and leaves status and mark alone when
\* the isolation level is 0 or the status is not READY; otherwise it sends
\* exactly the one BEGIN command of the isolation level, mark stays, and
\* status is BEGIN exactly when the command succeeded; when it failed the
\* status is still READY and -1 comes back.
C7_BeginFrame ==
    \A t \in Threads :
        /\ th[t].pc \in {"execute_query", "execute_begin_failed"}
           => IF isolation_level = 0 \/ th[t].status0 # "READY"
              THEN /\ th[t].pc = "execute_query"
                   /\ th[t].sent = <<>>
                   /\ status = th[t].status0
                   /\ mark = th[t].mark0
              ELSE /\ th[t].sent =
                        <<IF isolation_level = 1
                          THEN "BEGIN; SET TRANSACTION ISOLATION LEVEL READ COMMITTED"
                          ELSE "BEGIN; SET TRANSACTION ISOLATION LEVEL SERIALIZABLE">>
                   /\ mark = th[t].mark0
                   /\ status = "BEGIN" <=> th[t].cmdres = "ok"
                   /\ th[t].cmdres = "ok" <=> th[t].pc = "execute_query"
                   /\ th[t].cmdres # "ok" => status = "READY"
        /\ th[t].pc = "done" /\ th[t].op = "execute"
           /\ Len(th[t].sent) = 1 /\ th[t].sent[1] \in BeginQueries
           /\ th[t].cmdres # "ok"
           => th[t].retvalue = -1 /\ status = "READY"

C7_Witness ==
    \E t \in Threads :
        /\ th[t].pc = "execute_query"
        /\ th[t].status0 = "READY" /\ isolation_level = 2
        /\ th[t].sent = <<"BEGIN; SET TRANSACTION ISOLATION LEVEL SERIALIZABLE">>
        /\ status = "BEGIN"

\* C8: pq_commit called in status BEGIN sends exactly one COMMIT and on
\* return status is READY and mark is one more, whether COMMIT succeeded
\* (0 returned) or failed (-1 returned, an error set); called in another
\* status it sends nothing and changes neither status nor mark.
C8_CommitFrame ==
    \A t \in Threads :
        th[t].pc = "done" /\ th[t].op = "commit"
        => IF th[t].status0 = "BEGIN"
           THEN /\ th[t].sent = <<"COMMIT">>
                /\ status = "READY"
                /\ mark = th[t].mark0 + 1
                /\ th[t].cmdres = "ok"
                   => th[t].retvalue = 0 /\ th[t].exc = "none"
                /\ th[t].cmdres # "ok"
                   => th[t].retvalue = -1 /\ th[t].exc # "none"
           ELSE /\ th[t].sent = <<>>
                /\ status = th[t].status0
                /\ mark = th[t].mark0
                /\ th[t].retvalue = 0

C8_Witness ==
    \E t \in Threads :
        /\ th[t].pc = "done" /\ th[t].op = "commit"
        /\ th[t].status0 = "BEGIN" /\ th[t].cmdres = "bad"
        /\ th[t].sent = <<"COMMIT">> /\ th[t].retvalue = -1
        /\ status = "READY" /\ mark = th[t].mark0 + 1

\* C9: pq_abort called in status BEGIN sends ROLLBACK and on return status
\* is READY; called in another status it sends nothing and changes neither
\* status nor mark.
C9_AbortReturnsToReady ==
    \A t \in Threads :
        th[t].pc = "done" /\ th[t].op = "abort"
        => IF th[t].status0 = "BEGIN"
           THEN th[t].sent = <<"ROLLBACK">> /\ status = "READY"
           ELSE /\ th[t].sent = <<>>
                /\ status = th[t].status0
                /\ mark = th[t].mark0

\* C10: after pq_reset returns, status is READY and the two-phase-commit
\* identifier is cleared, ABORT (only if a transaction was open), RESET ALL
\* and SET SESSION AUTHORIZATION DEFAULT having been sent in that order.
C10_ResetReturnsToReady ==
    \A t \in Threads :
        th[t].pc = "done" /\ th[t].op = "reset"
        => /\ status = "READY"
           /\ ~tpc_xid
           /\ th[t].sent =
                (IF th[t].status0 = "BEGIN" THEN <<"ABORT">> ELSE <<>>)
                \o <<"RESET ALL", "SET SESSION AUTHORIZATION DEFAULT">>


\* C11 (as stated): mark never decreases, and every change of status made
\* by a call, READY to BEGIN as well as BEGIN to READY, comes with a
\* strict increase of mark.
C11_MarkIncreasesOnEveryTransition ==
    \A t \in Threads :
        th[t].pc = "done"
        => /\ mark >= th[t].mark0
           /\ status # th[t].status0 => mark > th[t].mark0

\* C11 (amended): mark never decreases; every change of status from BEGIN
\* to READY made by pq_commit, pq_abort or pq_reset comes with a strict
\* increase of mark, and the change from READY to BEGIN made by
\* pq_begin_locked leaves mark as it was.
C11_MarkIncreasesOnTransactionEnd ==
    /\ [](\A t \in Threads :
            th[t].pc = "done"
            => /\ th[t].status0 = "BEGIN" /\ status = "READY"
                  => mark > th[t].mark0
               /\ th[t].status0 = "READY" /\ status = "BEGIN"
                  => mark = th[t].mark0)
    /\ [][mark' >= mark]_vars

C11_Witness ==
    \E t \in Threads :
        /\ th[t].pc = "done" /\ th[t].op = "abort"
        /\ th[t].status0 = "BEGIN" /\ status = "READY"
        /\ mark = th[t].mark0 + 1


\* C12: every step that changes the two-phase-commit identifier or the
\* transaction mark is taken by a thread that holds the connection mutex
\* when it makes the change.
C12_MarkAndXidChangeUnderMutex ==
    [][(tpc_xid' # tpc_xid \/ mark' # mark)
        => \E t \in Threads : th'[t] # th[t] /\ lock' = t]_vars


\* C13: an asynchronous pq_execute on a connection that already has an
\* asynchronous owner fails, and leaves async_cursor and async_status as
\* they were before the call.
C13_SecondAsyncExecuteFails ==
    \A t \in Threads :
        /\ th[t].pc = "done" /\ th[t].op = "execute" /\ th[t].async = 1
        /\ th[t].acur0 # NoThread
        => /\ th[t].retvalue = -1
           /\ async_cursor = th[t].acur0
           /\ async_status = th[t].astat0


\* C14: a pq_execute called with the critical flag set fails with an
\* OperationalError, sends nothing, closes the connection and clears the
\* flag; called on a session that is not OK it fails with an
\* OperationalError and sends nothing.  Both leave status, mark and the
\* asynchronous state as they were.
C14_ExecuteRefusesBrokenConnection ==
    [][\A t \in Threads :
        /\ th[t].pc = "idle" /\ th'[t].op = "execute"
        /\ critical \/ connBad
        => /\ th'[t].pc = "done"
           /\ th'[t].retvalue = -1
           /\ th'[t].exc = "OperationalError"
           /\ th'[t].sent = <<>>
           /\ critical => closed' = 1 /\ ~critical'
           /\ status' = status /\ mark' = mark
           /\ async_cursor' = async_cursor /\ async_status' = async_status
           /\ asyncBusy' = asyncBusy /\ txOpen' = txOpen]_vars

C14_Witness ==
    \E t \in Threads :
        /\ th[t].pc = "done" /\ th[t].op = "execute"
        /\ th[t].retvalue = -1 /\ th[t].exc = "OperationalError"
        /\ th[t].sent = <<>> /\ closed = 1 /\ ~critical
        /\ status = "BEGIN" /\ async_cursor # NoThread


\* C15: pq_resolve_critical on a connection whose critical flag is clear
\* does nothing: no error is set, the connection is not closed, nothing
\* changes; and on a connection whose flag is set it clears the flag, so a
\* second call right after is such a no-op.
C15_ResolveOnClearFlagIsNoOp ==
    \A t \in Threads :
        th[t].pc = "done" /\ th[t].op = "resolve_critical"
        => /\ th[t].out.critical = <<>>
           /\ th[t].arg.critical = <<>>
              => /\ th[t].out.exc = "none"
                 /\ th[t].out.text = <<>>
                 /\ th[t].out.closed = th[t].arg.closed

C15_Witness ==
    \E t \in Threads :
        /\ th[t].pc = "done" /\ th[t].op = "resolve_critical"
        /\ th[t].arg.critical = <<>> /\ th[t].arg.closed = 1
        /\ th[t].out.exc = "none" /\ th[t].out.closed = 1

\* C16: for every non-empty stored message, of any length, the text of the
\* OperationalError pq_resolve_critical sets is that stored message, and
\* afterwards the critical flag is clear.
C16_ResolveSurfacesStoredMessage ==
    \A t \in Threads :
        /\ th[t].pc = "done" /\ th[t].op = "resolve_critical"
        /\ th[t].arg.critical # <<>>
        => /\ th[t].out.exc = "OperationalError"
           /\ th[t].out.text = th[t].arg.critical
           /\ th[t].out.critical = <<>>


\* C17: when pq_fetch has handled a result with outcome ex and the critical
\* flag is set afterwards, pq_fetch returns -1 whatever ex was, clears the
\* flag, closes the connection when ex was -1 and leaves it as it was when
\* ex was anything else.
C17_FetchResolvesCritical ==
    [][\A t \in Threads :
        /\ th[t].pc = "notice" /\ th[t].op \in {"fetch", "execute"}
        /\ th'[t].pc = "done" /\ critical
        => /\ th'[t].retvalue = -1
           /\ th'[t].exc = "OperationalError"
           /\ ~critical'
           /\ th[t].retvalue = -1 => closed' = 1
           /\ th[t].retvalue # -1 => closed' = closed /\ closed' # 1]_vars

C17_Witness ==
    \E t \in Threads :
        /\ th[t].pc = "done" /\ th[t].op = "execute"
        /\ pgres[t] = "TUPLES_OK"
        /\ th[t].retvalue = -1 /\ th[t].exc = "OperationalError"
        /\ closed = 0 /\ ~critical


(***************************************************************************)
(* exception_from_sqlstate, as a function of the five characters of the    *)
(* SQLSTATE.  The module is built with PSYCOPG_EXTENSIONS defined, the     *)
(* build in which TransactionRollbackError and QueryCanceledError exist.   *)
(***************************************************************************)
PSYCOPG_EXTENSIONS == TRUE

\* The characters SQLSTATEs are drawn from, and the tails tried after the
\* two characters of the class.
SqlstateChars ==
    {"0", "1", "2", "3", "4", "5", "6", "7", "8", "9",
     "A", "B", "D", "F", "P", "X"}

SqlstateTails ==
    {<<"0", "0", "0">>, <<"0", "1", "4">>, <<"0", "1", "5">>,
     <<"P", "0", "1">>}

Sqlstates ==
    {<<a, b>> \o tail : a \in SqlstateChars, b \in SqlstateChars,
                        tail \in SqlstateTails}

exception_from_sqlstate_class5_operational(sqlstate) == "OperationalError"

\* case '5': strcmp with "57014" under PSYCOPG_EXTENSIONS, else
\* OperationalError whatever the second character is.
exception_from_sqlstate_class5(sqlstate) ==
    IF PSYCOPG_EXTENSIONS /\ sqlstate = <<"5", "7", "0", "1", "4">>
    THEN "QueryCanceledError"
    ELSE "OperationalError"

\* case '4', on sqlstate[1]; a second character without a case breaks
\* out to the DatabaseError fallback.
exception_from_sqlstate_class4(c) ==
    CASE c = "0" -> IF PSYCOPG_EXTENSIONS THEN "TransactionRollbackError"
                                          ELSE "OperationalError"
      [] c \in {"2", "4"} -> "ProgrammingError"
      [] OTHER -> "DatabaseError"

\* case '2', on sqlstate[1].
exception_from_sqlstate_class2(c) ==
    CASE c = "1" -> "ProgrammingError"
      [] c = "2" -> "DataError"
      [] c = "3" -> "IntegrityError"
      [] c \in {"4", "5"} -> "InternalError"
      [] c \in {"6", "7", "8"} -> "OperationalError"
      [] c \in {"B", "D", "F"} -> "InternalError"
      [] OTHER -> "DatabaseError"

\* case '3', on sqlstate[1].
exception_from_sqlstate_class3(c) ==
    CASE c = "4" -> "OperationalError"
      [] c \in {"8", "9", "B"} -> "InternalError"
      [] c \in {"D", "F"} -> "ProgrammingError"
      [] OTHER -> "DatabaseError"

\* The switch on sqlstate[0].
exception_from_sqlstate(sqlstate) ==
    CASE sqlstate[1] = "0" ->
            IF sqlstate[2] = "A" THEN "NotSupportedError" ELSE "DatabaseError"
      [] sqlstate[1] = "2" -> exception_from_sqlstate_class2(sqlstate[2])
      [] sqlstate[1] = "3" -> exception_from_sqlstate_class3(sqlstate[2])
      [] sqlstate[1] = "4" -> exception_from_sqlstate_class4(sqlstate[2])
      [] sqlstate[1] = "5" -> exception_from_sqlstate_class5(sqlstate)
      [] sqlstate[1] \in {"F", "P", "X"} -> "InternalError"
      [] OTHER -> "DatabaseError"

\* A caller holding a SQLSTATE; nothing else of the connection moves.
InitSqlstate ==
    /\ status = "READY"
    /\ isolation_level = 1
    /\ mark = 0
    /\ critical = FALSE
    /\ closed = 0
    /\ tpc_xid = FALSE
    /\ async_status = "NONE"
    /\ async_cursor = NoThread
    /\ protocol = 3
    /\ lock = NoThread
    /\ gil = NoThread
    /\ green = FALSE
    /\ connBad = FALSE
    /\ asyncBusy = FALSE
    /\ txOpen = FALSE
    /\ begin_mark = <<>>
    /\ pgres = [t \in Threads |-> "NULL"]
    /\ \E s \in Sqlstates :
        th = [t \in Threads |->
                IF t \in Callers THEN [Idle EXCEPT !.arg = s] ELSE Idle]

\* exception_from_sqlstate(sqlstate) is called and returns the exception.
sqlstate_classify(t) ==
    /\ th[t].pc = "idle"
    /\ th' = [th EXCEPT ![t].op = "exception_from_sqlstate",
                        ![t].pc = "done",
                        ![t].out = <<exception_from_sqlstate(th[t].arg)>>]
    /\ UNCHANGED <<conn_vars, env_vars, pgres>>

\* The caller takes the exception and comes back with another SQLSTATE.
sqlstate_return(t) ==
    /\ th[t].pc = "done"
    /\ \E s \in Sqlstates : th' = [th EXCEPT ![t] = [Idle EXCEPT !.arg = s]]
    /\ UNCHANGED <<conn_vars, env_vars, pgres>>

NextSqlstate ==
    \E t \in Callers : sqlstate_classify(t) \/ sqlstate_return(t)

SpecSqlstate == InitSqlstate /\ [][NextSqlstate]_vars

(***************************************************************************)
(* The functions of pqpath.c that are checked one call at a time, each as  *)
(* a function of what its caller and libpq hand over: strip_severity and   *)
(* pq_raise first.  A C string is a TLA+ string; a pointer that may be     *)
(* NULL is a sequence, <<>> for NULL and <<s>> for the string s.           *)
(***************************************************************************)
Min(a, b) == IF a < b THEN a ELSE b

\* !strncmp(s, lit, n): the first n characters agree (fewer if a string
\* ends before).
strncmp_equal(s, lit, n) ==
    SubSeq(s, 1, Min(n, Len(s))) = SubSeq(lit, 1, Min(n, Len(lit)))

\* strstr(s, needle) != NULL.
strstr_found(s, needle) ==
    \E i \in 1..(Len(s) - Len(needle) + 1) :
        SubSeq(s, i, i + Len(needle) - 1) = needle

strip_severity(msg) ==
    IF /\ Len(msg) > 8
       /\ \/ strncmp_equal(msg, "ERROR:  ", 8)
          \/ strncmp_equal(msg, "FATAL:  ", 8)
          \/ strncmp_equal(msg, "PANIC:  ", 8)
    THEN SubSeq(msg, 9, Len(msg))
    ELSE msg

\* Messages tried with strip_severity.
SeverityMsgs ==
    {"", "x", "ERROR:", "ERROR: x", "ERROR:  ", "ERROR:  x", "FATAL:  ",
     "FATAL:  xy", "PANIC:  ", "PANIC:  x", "NOTICE:  x", "error:  xyz",
     "ERROR:  deadlock detected"}

\* Error messages a result can carry (PQresultErrorMessage never gives
\* NULL for a result), messages of the connection, and SQLSTATEs.
ResultMsgs ==
    {"", "ERROR:  Cannot insert a duplicate key x",
     "ERROR:  ExecAppend: Fail to add null value",
     "ERROR:  referential integrity violation - key",
     "ERROR:  could not serialize access",
     "FATAL:  deadlock detected; referential integrity violation",
     "ERROR:  deadlock detected", "ERROR:  syntax error",
     "Cannot insert a duplicate key"}

ConnMsgs ==
    {"", "FATAL:  terminating connection",
     "could not serialize access"}

ResultCodes == {"23505", "40001", "42601"}

Option(S) == {<<>>} \cup {<<s>> : s \in S}

Results == [err : ResultMsgs, code : Option(ResultCodes)]

\* if (pgres == NULL && curs != NULL) pgres = curs->pgres;
pq_raise_pgres(pgres_arg, hascurs, curs_pgres) ==
    IF pgres_arg = <<>> /\ hascurs THEN curs_pgres ELSE pgres_arg

pq_raise_code_any_protocol(res, proto) ==
    IF res # <<>> THEN res[1].code ELSE <<>>

\* code: PQresultErrorField(pgres, PG_DIAG_SQLSTATE) when there is a
\* result with a message and the protocol is 3.
pq_raise_code(res, proto) ==
    IF res # <<>> /\ proto = 3 THEN res[1].code ELSE <<>>

pq_raise_err_connection_first(res, connmsg) ==
    IF connmsg # <<>> THEN connmsg
    ELSE IF res # <<>> THEN <<res[1].err>> ELSE <<>>

\* err: PQresultErrorMessage(pgres), else PQerrorMessage(conn->pgconn).
pq_raise_err(res, connmsg) ==
    IF res # <<>> THEN <<res[1].err>> ELSE connmsg

\* The exception chosen by comparing error messages.
pq_raise_text_exc(err) ==
    IF \/ strncmp_equal(err, "ERROR:  Cannot insert a duplicate key", 37)
       \/ strncmp_equal(err, "ERROR:  ExecAppend: Fail to add null", 36)
       \/ strstr_found(err, "referential integrity violation")
    THEN "IntegrityError"
    ELSE IF \/ strstr_found(err, "could not serialize")
            \/ strstr_found(err, "deadlock detected")
    THEN (IF PSYCOPG_EXTENSIONS THEN "TransactionRollbackError"
                                ELSE "OperationalError")
    ELSE "ProgrammingError"

\* The characters of a string, as exception_from_sqlstate reads them.
Characters(s) == [i \in 1..Len(s) |-> SubSeq(s, i, i)]

\* exc: from the SQLSTATE when there is one, else from the message.
pq_raise_exc(code, err) ==
    IF code # <<>> THEN exception_from_sqlstate(Characters(code[1]))
                   ELSE pq_raise_text_exc(err)

\* What pq_raise hands to psyco_set_error (or to PyErr_SetString when no
\* message was found): exception, message, pgerror, pgcode.
pq_raise_error(res, connmsg, proto) ==
    LET err == pq_raise_err(res, connmsg)
        code == pq_raise_code(res, proto)
    IN  IF err = <<>>
        THEN [exc |-> "Error",
              msg |-> "psycopg went psycotic without error set",
              pgerror |-> <<>>, pgcode |-> <<>>]
        ELSE [exc |-> pq_raise_exc(code, err[1]),
              msg |-> strip_severity(err[1]),
              pgerror |-> err, pgcode |-> code]

InitFunctions ==
    /\ status = "READY"
    /\ isolation_level = 1
    /\ mark = 0
    /\ critical \in BOOLEAN
    /\ closed = 0
    /\ tpc_xid = FALSE
    /\ async_status = "NONE"
    /\ async_cursor = NoThread
    /\ protocol \in {2, 3}
    /\ lock = NoThread
    /\ gil = NoThread
    /\ green = FALSE
    /\ connBad \in BOOLEAN
    /\ asyncBusy = FALSE
    /\ txOpen = FALSE
    /\ begin_mark = <<>>
    /\ pgres = [t \in Threads |-> "NULL"]
    /\ th = [t \in Threads |-> Idle]

\* strip_severity(msg) is called with a message.
raise_strip_severity(t) ==
    /\ th[t].pc = "idle"
    /\ \E m \in SeverityMsgs :
        th' = [th EXCEPT ![t].op = "strip_severity", ![t].pc = "done",
                         ![t].arg = <<m>>,
                         ![t].out = <<strip_severity(m)>>]
    /\ UNCHANGED <<conn_vars, env_vars, pgres>>

\* pq_raise(conn, curs, pgres) with conn not NULL and a session.
raise_pq_raise(t) ==
    /\ th[t].pc = "idle"
    /\ \E pgres_arg \in Option(Results), hascurs \in BOOLEAN,
          curs_pgres \in Option(Results), connmsg \in Option(ConnMsgs) :
        /\ ~hascurs => curs_pgres = <<>>
        /\ th' = [th EXCEPT
                    ![t].op = "pq_raise", ![t].pc = "done",
                    ![t].arg = [pgres |-> pgres_arg, hascurs |-> hascurs,
                                curs_pgres |-> curs_pgres,
                                connmsg |-> connmsg, closed |-> closed],
                    ![t].out = <<pq_raise_error(
                                   pq_raise_pgres(pgres_arg, hascurs,
                                                  curs_pgres),
                                   connmsg, protocol)>>]
    /\ closed' = pq_raise_closed(closed)
    /\ UNCHANGED <<status, isolation_level, mark, critical, tpc_xid,
                   async_status, async_cursor, protocol, env_vars, pgres>>

(***************************************************************************)
(* _pq_copy_in_v3 and _pq_copy_out_v3 with the data they move.  `arg' is   *)
(* what the source, the backend stream and the backend's result queue      *)
(* will give; `out' is what was read, sent, written and retrieved so far.  *)
(* The session is in blocking mode: PQputCopyData returns 1 or -1.         *)
(***************************************************************************)
MaxReads == 3

MaxQueued == 2

CopyChunks == {"abc", "def"}

\* What the source's read() gives, call after call: a chunk, the empty
\* string, or <<>> when it fails; after the last one it gives "".
CopySources ==
    UNION {[1..n -> Option(CopyChunks \cup {""})] : n \in 0..MaxReads}

CopyRead(src, n) == IF n < Len(src) THEN src[n + 1] ELSE <<"">>

\* What PQgetCopyData gives: the frames, then 0, -1 (end of copy) or -2.
CopyStreams ==
    [frames : UNION {[1..n -> CopyChunks] : n \in 0..MaxReads},
     last : {0, -1, -2}]

\* The results the backend has queued for PQgetResult.
QueuedResults ==
    UNION {[1..n -> {"COMMAND_OK", "FATAL_ERROR"}] : n \in 0..MaxQueued}

\* The two lookups before the loop: when PyObject_GetAttrString of "read"
\* (or PyInt_FromSsize_t) fails, error = 1 and goto exit.
copy_in_v3_call(t) ==
    /\ th[t].pc = "idle"
    /\ \E src \in CopySources, q \in QueuedResults, readable \in BOOLEAN :
        th' = [th EXCEPT ![t].op = "_pq_copy_in_v3",
                         ![t].pc = IF readable THEN "fn_copy_in_v3_read"
                                               ELSE "done",
                         ![t].cerr = IF readable THEN 0 ELSE 1,
                         ![t].exc = IF readable THEN "none"
                                                ELSE "CallbackError",
                         ![t].retvalue = IF readable THEN @
                                         ELSE _pq_copy_in_v3_ret(1),
                         ![t].arg = [source |-> src, queued |-> q,
                                     readable |-> readable],
                         ![t].out = [reads |-> 0, frames |-> <<>>,
                                     ends |-> <<>>, got |-> <<>>]]
    /\ UNCHANGED <<conn_vars, env_vars, pgres>>

\* One turn of the loop: read(), then PQputCopyData of what it gave.
copy_in_v3_chunk(t) ==
    /\ th[t].pc = "fn_copy_in_v3_read"
    /\ LET o == CopyRead(th[t].arg.source, th[t].out.reads) IN
       IF o = <<>>
       THEN \E e \in {"CallbackError", "none"} :
               th' = [th EXCEPT ![t].cerr = 1, ![t].exc = e,
                                ![t].out.reads = @ + 1,
                                ![t].pc = "fn_copy_in_v3_end"]
       ELSE IF o[1] = ""
       THEN th' = [th EXCEPT ![t].out.reads = @ + 1,
                             ![t].pc = "fn_copy_in_v3_end"]
       ELSE \E res \in SendOutcomes :
               IF res = "ok"
               THEN th' = [th EXCEPT ![t].out.reads = @ + 1,
                                     ![t].out.frames = Append(@, o[1])]
               ELSE th' = [th EXCEPT ![t].out.reads = @ + 1,
                                     ![t].cerr = 2,
                                     ![t].pc = "fn_copy_in_v3_end"]
    /\ UNCHANGED <<conn_vars, env_vars, pgres>>

_pq_copy_in_v3_errormsg_read(error) == <<"error in .read() call">>

\* The errormsg given to PQputCopyEnd: NULL when error is 0.
_pq_copy_in_v3_errormsg(error) ==
    IF error = 0 THEN <<>>
    ELSE IF error = 2 THEN <<"error in PQputCopyData() call">>
    ELSE <<"error in .read() call">>

\* PQputCopyEnd: on -1 pq_raise, closed = 2 and no PQgetResult.
copy_in_v3_end(t) ==
    /\ th[t].pc = "fn_copy_in_v3_end"
    /\ \E res \in SendOutcomes :
        IF res = "ok"
        THEN /\ th' = [th EXCEPT
                         ![t].out.ends =
                             Append(@, _pq_copy_in_v3_errormsg(th[t].cerr)),
                         ![t].retvalue = _pq_copy_in_v3_ret(th[t].cerr),
                         ![t].pc = "fn_copy_results"]
             /\ UNCHANGED closed
        ELSE /\ th' = [th EXCEPT
                         ![t].exc = "BackendError",
                         ![t].retvalue = _pq_copy_in_v3_ret(th[t].cerr),
                         ![t].pc = "done"]
             /\ closed' = 2
    /\ UNCHANGED <<status, isolation_level, mark, critical, tpc_xid,
                   async_status, async_cursor, protocol, env_vars, pgres>>

\* while ((curs->pgres = PQgetResult(...)) != NULL): one result, raised
\* when fatal; NULL ends the function.
copy_drain(t) ==
    /\ th[t].pc = "fn_copy_results"
    /\ LET n == Len(th[t].out.got) IN
       IF n < Len(th[t].arg.queued)
       THEN LET r == th[t].arg.queued[n + 1] IN
            /\ th' = [th EXCEPT ![t].out.got = Append(@, r),
                                ![t].exc = IF r = "FATAL_ERROR"
                                           THEN "BackendError" ELSE @]
            /\ closed' = IF r = "FATAL_ERROR" THEN pq_raise_closed(closed)
                                              ELSE closed
       ELSE /\ th' = [th EXCEPT ![t].pc = "done"]
            /\ UNCHANGED closed
    /\ UNCHANGED <<status, isolation_level, mark, critical, tpc_xid,
                   async_status, async_cursor, protocol, env_vars, pgres>>

copy_out_v3_call(t) ==
    /\ th[t].pc = "idle"
    /\ \E s \in CopyStreams, q \in QueuedResults :
        th' = [th EXCEPT ![t].op = "_pq_copy_out_v3",
                         ![t].pc = "fn_copy_out_v3_get",
                         ![t].arg = [stream |-> s, queued |-> q],
                         ![t].out = [reads |-> 0, writes |-> <<>>,
                                     got |-> <<>>]]
    /\ UNCHANGED <<conn_vars, env_vars, pgres>>

_pq_copy_out_v3_raises_never(len) == FALSE

\* if (len == -2) pq_raise(...), after the loop.
_pq_copy_out_v3_raises(len) == len = -2

\* One turn of the loop: PQgetCopyData, then write() of the frame; after
\* the last frame the break, and pq_raise when len is -2.
copy_out_v3_frame(t) ==
    /\ th[t].pc = "fn_copy_out_v3_get"
    /\ LET s == th[t].arg.stream
           n == th[t].out.reads
       IN  IF n < Len(s.frames)
           THEN /\ \E ok \in BOOLEAN :
                    IF ok
                    THEN th' = [th EXCEPT
                                  ![t].out.reads = @ + 1,
                                  ![t].out.writes = Append(@, s.frames[n + 1])]
                    ELSE th' = [th EXCEPT ![t].out.reads = @ + 1,
                                          ![t].exc = "CallbackError",
                                          ![t].retvalue = -1,
                                          ![t].pc = "done"]
                /\ UNCHANGED closed
           ELSE IF _pq_copy_out_v3_raises(s.last)
           THEN /\ th' = [th EXCEPT ![t].exc = "BackendError",
                                    ![t].retvalue = -1, ![t].pc = "done"]
                /\ closed' = pq_raise_closed(closed)
           ELSE /\ th' = [th EXCEPT ![t].retvalue = 1,
                                    ![t].pc = "fn_copy_results"]
                /\ UNCHANGED closed
    /\ UNCHANGED <<status, isolation_level, mark, critical, tpc_xid,
                   async_status, async_cursor, protocol, env_vars, pgres>>

(***************************************************************************)
(* _pq_fetch_tuples: items 3, 4 and 5 of the description of one column,    *)
(* from PQftype, PQfsize and PQfmod.  None is <<>>.                        *)
(***************************************************************************)
\* Values of PQfmod: an int.
FieldMods ==
    {-65536, -1, 0, 1, 3, 4, 5, 65539, 65540, 655366, 65536003,
     2147483647}

_pq_fetch_tuples_fmod_as_declared(fmod) == fmod

\* if (fmod > 0) fmod = fmod - sizeof(int);
_pq_fetch_tuples_fmod(fmod) == IF fmod > 0 THEN fmod - 4 ELSE fmod

\* (x >> n) & 0xFFFF of an int x for n = 0 and n = 16, d being 2^n: the
\* mask keeps 16 bits of the two's complement of x, the same whether the
\* shift of a negative x is arithmetic or logical.
ShiftMask16(x, d) == (x \div d) % 65536

\* internal_size, precision and scale of the column.
_pq_fetch_tuples_dtitem(ftype, fsize, fmod) ==
    LET m == _pq_fetch_tuples_fmod(fmod) IN
    [internal_size |->
        IF fsize = -1
        THEN (IF ftype = "NUMERICOID" THEN ShiftMask16(m, 65536) ELSE m)
        ELSE fsize,
     precision |->
        IF ftype = "NUMERICOID" THEN <<ShiftMask16(m, 65536)>> ELSE <<>>,
     scale |->
        IF ftype = "NUMERICOID" THEN <<ShiftMask16(m, 1)>> ELSE <<>>]

\* One turn of the loop over the columns of the result.
fetch_tuples_column(t) ==
    /\ th[t].pc = "idle"
    /\ \E ftype \in {"NUMERICOID", "INT4OID", "VARCHAROID"},
          fsize \in {-1, 4}, fmod \in FieldMods :
        th' = [th EXCEPT
                 ![t].op = "_pq_fetch_tuples", ![t].pc = "done",
                 ![t].arg = [ftype |-> ftype, fsize |-> fsize,
                             fmod |-> fmod],
                 ![t].out = <<_pq_fetch_tuples_dtitem(ftype, fsize, fmod)>>]
    /\ UNCHANGED <<conn_vars, env_vars, pgres>>

(***************************************************************************)
(* pq_fetch: curs->rowcount, from the kind of the result, PQcmdTuples and  *)
(* PQntuples.  An int has 32 bits; a number that may not fit is kept as    *)
(* two 16-bit halves.                                                      *)
(***************************************************************************)
\* Texts PQcmdTuples gives; NULL is <<>>.
CmdTuplesTexts ==
    {"", "0", "3", "42", "65536", "2147483647", "2147483648",
     "3000000000", "4294967299"}

\* The digits of s from position i on, accumulated modulo 2^32 in acc;
\* acc.over tells that the number passed INT_MAX on the way.
RECURSIVE atoi_scan(_, _, _)
atoi_scan(s, i, acc) ==
    IF i > Len(s) THEN acc
    ELSE LET c == SubSeq(s, i, i)
             d == CASE c = "0" -> 0 [] c = "1" -> 1 [] c = "2" -> 2
                    [] c = "3" -> 3 [] c = "4" -> 4 [] c = "5" -> 5
                    [] c = "6" -> 6 [] c = "7" -> 7 [] c = "8" -> 8
                    [] c = "9" -> 9 [] OTHER -> -1
             lo == acc.lo * 10 + d
             hi == (acc.hi * 10) + (lo \div 65536)
         IN  IF d = -1 THEN acc
             ELSE atoi_scan(s, i + 1,
                            [hi |-> hi % 65536, lo |-> lo % 65536,
                             over |-> acc.over \/ hi >= 32768])

\* atoi(s) for a text without leading blanks or sign: the number when it
\* fits an int; when it does not the behaviour is undefined, and builds
\* give the number wrapped to 32 bits or INT_MAX.
atoi(s) ==
    LET a == atoi_scan(s, 1, [hi |-> 0, lo |-> 0, over |-> FALSE])
    IN  IF ~a.over THEN {a.hi * 65536 + a.lo}
        ELSE {IF a.hi >= 32768 THEN (a.hi - 65536) * 65536 + a.lo
                               ELSE a.hi * 65536 + a.lo,
              2147483647}

\* The values curs->rowcount can get for a result of that kind.
pq_fetch_rowcount(kind, text, ntuples) ==
    CASE kind = "COMMAND_OK" ->
            IF text = <<>> \/ text[1] = "" THEN {-1} ELSE atoi(text[1])
      [] kind \in {"COPY_OUT", "COPY_IN"} -> {-1}
      [] kind = "TUPLES_OK" -> {ntuples}

\* The switch of pq_fetch on the status of the result, for rowcount.
fetch_rowcount(t) ==
    /\ th[t].pc = "idle"
    /\ \E kind \in {"COMMAND_OK", "COPY_OUT", "COPY_IN", "TUPLES_OK"},
          text \in Option(CmdTuplesTexts), ntuples \in {0, 1, 65536} :
        \E rowcount \in pq_fetch_rowcount(kind, text, ntuples) :
            th' = [th EXCEPT
                     ![t].op = "pq_fetch_rowcount", ![t].pc = "done",
                     ![t].arg = [kind |-> kind, text |-> text,
                                 ntuples |-> ntuples],
                     ![t].out = <<rowcount>>]
    /\ UNCHANGED <<conn_vars, env_vars, pgres>>

\* The function returned; the connection is as it left it.
function_return(t) ==
    /\ th[t].pc = "done"
    /\ th' = [th EXCEPT ![t] = Idle]
    /\ UNCHANGED <<conn_vars, env_vars, pgres>>

NextFunctions ==
    \E t \in Callers :
        \/ raise_strip_severity(t) \/ raise_pq_raise(t)
        \/ copy_in_v3_call(t) \/ copy_in_v3_chunk(t) \/ copy_in_v3_end(t)
        \/ copy_out_v3_call(t) \/ copy_out_v3_frame(t) \/ copy_drain(t)
        \/ fetch_tuples_column(t) \/ fetch_rowcount(t)
        \/ function_return(t)

SpecFunctions == InitFunctions /\ [][NextFunctions]_vars

\* C18: pq_execute returns 1, 0 or -1 and nothing else: 1 only from a
\* synchronous call that set no error, 0 only from an asynchronous call
\* that set no error, and -1 whenever an error was set.
C18_ExecuteReturnValue ==
    \A t \in Threads :
        th[t].pc = "done" /\ th[t].op = "execute"
        => /\ th[t].retvalue \in {-1, 0, 1}
           /\ th[t].retvalue = 1 => th[t].async = 0 /\ th[t].exc = "none"
           /\ th[t].retvalue = 0 => th[t].async = 1 /\ th[t].exc = "none"
           /\ th[t].exc # "none" => th[t].retvalue = -1

C18_Witness ==
    \E t \in Threads :
        /\ th[t].pc = "done" /\ th[t].op = "execute"
        /\ th[t].async = 0 /\ th[t].retvalue = 1
        /\ pgres[t] = "TUPLES_OK" /\ th[t].exc = "none"


\* C19: a pq_execute that returns -1 has set an error, and when it returns
\* from a transport-level failure (NULL result of the synchronous
\* submission, PQsendQuery refused, PQflush failed, PQstatus not OK) the
\* error is OperationalError.
C19_FailureReportsOneError ==
    [][\A t \in Threads :
        /\ th'[t] # th[t]
        /\ th'[t].pc = "done" /\ th'[t].op = "execute"
        /\ th'[t].retvalue = -1
        => /\ th'[t].exc # "none"
           /\ (\/ th[t].pc \in {"execute_null", "execute_send_failed",
                                "execute_PQflush"}
               \/ (th[t].pc = "idle" /\ ~critical /\ connBad))
              => th'[t].exc = "OperationalError"]_vars


\* The kind the table gives for a class, <<>> when the class is not in it.
SqlstateTable(a, b) ==
    CASE a = "0" /\ b = "A" -> <<"NotSupportedError">>
      [] a = "2" /\ b \in {"1"} -> <<"ProgrammingError">>
      [] a = "2" /\ b = "2" -> <<"DataError">>
      [] a = "2" /\ b = "3" -> <<"IntegrityError">>
      [] a = "2" /\ b \in {"4", "5", "B", "D", "F"} -> <<"InternalError">>
      [] a = "2" /\ b \in {"6", "7", "8"} -> <<"OperationalError">>
      [] a = "3" /\ b = "4" -> <<"OperationalError">>
      [] a = "3" /\ b \in {"8", "9", "B"} -> <<"InternalError">>
      [] a = "3" /\ b \in {"D", "F"} -> <<"ProgrammingError">>
      [] a = "4" /\ b = "0" -> <<"TransactionRollbackError">>
      [] a = "4" /\ b \in {"2", "4"} -> <<"ProgrammingError">>
      [] a = "5" /\ b \in {"3", "4", "5", "7", "8"} -> <<"OperationalError">>
      [] a = "F" /\ b = "0" -> <<"InternalError">>
      [] a = "P" /\ b = "0" -> <<"InternalError">>
      [] a = "X" /\ b = "X" -> <<"InternalError">>
      [] OTHER -> <<>>

\* C20: for every SQLSTATE whose class is in the table the exception is
\* the one the table gives, except that 57014 gives QueryCanceledError.
C20_ClassifiesByTable ==
    \A t \in Threads :
        /\ th[t].pc = "done" /\ th[t].op = "exception_from_sqlstate"
        /\ SqlstateTable(th[t].arg[1], th[t].arg[2]) # <<>>
        => th[t].out =
             IF th[t].arg = <<"5", "7", "0", "1", "4">>
             THEN <<"QueryCanceledError">>
             ELSE SqlstateTable(th[t].arg[1], th[t].arg[2])

C20_Witness ==
    \E t \in Threads :
        /\ th[t].pc = "done" /\ th[t].op = "exception_from_sqlstate"
        /\ th[t].arg = <<"5", "7", "0", "1", "4">>
        /\ th[t].out = <<"QueryCanceledError">>


\* C21: for every SQLSTATE whose class is not in the table the exception
\* is the generic DatabaseError.
C21_UnlistedClassIsDatabaseError ==
    \A t \in Threads :
        /\ th[t].pc = "done" /\ th[t].op = "exception_from_sqlstate"
        /\ SqlstateTable(th[t].arg[1], th[t].arg[2]) = <<>>
        => th[t].out = <<"DatabaseError">>


SeverityPrefixes == {"ERROR:  ", "FATAL:  ", "PANIC:  "}

\* C22: strip_severity removes the first 8 characters of every message
\* that begins with a severity prefix, the bare prefix included, and
\* returns every other message unchanged.
C22_StripSeverity ==
    \A t \in Threads :
        th[t].pc = "done" /\ th[t].op = "strip_severity"
        => LET m == th[t].arg[1] IN
           th[t].out[1] =
             IF Len(m) >= 8 /\ SubSeq(m, 1, 8) \in SeverityPrefixes
             THEN SubSeq(m, 9, Len(m))
             ELSE m


\* The result pq_raise works on: the one it is given, else the cursor's.
C23_Result(a) ==
    IF a.pgres # <<>> THEN a.pgres
    ELSE IF a.hascurs THEN a.curs_pgres ELSE <<>>

\* The exception the message text gives: IntegrityError first, then
\* TransactionRollbackError, then ProgrammingError.
C23_Contains(m, s) ==
    \E i \in 1..Len(m) :
        i + Len(s) - 1 <= Len(m) /\ SubSeq(m, i, i + Len(s) - 1) = s

C23_StartsWith(m, s) ==
    Len(s) <= Len(m) /\ SubSeq(m, 1, Len(s)) = s

C23_TextKind(m) ==
    CASE \/ C23_StartsWith(m, "ERROR:  Cannot insert a duplicate key")
         \/ C23_StartsWith(m, "ERROR:  ExecAppend: Fail to add null")
         \/ C23_Contains(m, "referential integrity violation")
            -> "IntegrityError"
      [] \/ C23_Contains(m, "could not serialize")
         \/ C23_Contains(m, "deadlock detected")
            -> "TransactionRollbackError"
      [] OTHER -> "ProgrammingError"

\* C23: pq_raise takes the exception from the SQLSTATE exactly when the
\* protocol is 3 and there is a result carrying a SQLSTATE; in every other
\* case with a message the exception comes from the message text.
C23_KindFromCodeOrText ==
    \A t \in Threads :
        /\ th[t].pc = "done" /\ th[t].op = "pq_raise"
        /\ th[t].out[1].pgerror # <<>>
        => LET res == C23_Result(th[t].arg)
               o == th[t].out[1]
           IN  IF protocol = 3 /\ res # <<>> /\ res[1].code # <<>>
               THEN /\ o.pgcode = res[1].code
                    /\ o.exc = exception_from_sqlstate(
                                   Characters(res[1].code[1]))
               ELSE /\ o.pgcode = <<>>
                    /\ o.exc = C23_TextKind(o.pgerror[1])

\* A protocol-2 result that carries a SQLSTATE and a deadlock message:
\* the exception is the one the text gives.
C23_Witness ==
    \E t \in Threads :
        /\ th[t].pc = "done" /\ th[t].op = "pq_raise"
        /\ protocol = 2
        /\ th[t].arg.pgres # <<>>
        /\ th[t].arg.pgres[1].code = <<"23505">>
        /\ th[t].arg.pgres[1].err = "ERROR:  deadlock detected"
        /\ th[t].out[1].exc = "TransactionRollbackError"


\* C24: pq_raise reports the message of the result it works on (the one
\* given, else the cursor's) when there is a result, else the connection's
\* message, and a generic Error when there is neither; and when the session
\* is bad it sets closed to 2, leaves critical alone and sends nothing.
C24_RaiseMessageOrderAndClosed ==
    [][\A t \in Threads :
        th[t].pc = "idle" /\ th'[t].pc = "done" /\ th'[t].op = "pq_raise"
        => LET res == C23_Result(th'[t].arg)
               o == th'[t].out[1]
           IN  /\ res # <<>> => o.pgerror = <<res[1].err>>
               /\ res = <<>> => o.pgerror = th'[t].arg.connmsg
               /\ res = <<>> /\ th'[t].arg.connmsg = <<>>
                  => o.exc = "Error" /\ o.pgcode = <<>>
               /\ connBad => closed' = 2
               /\ critical' = critical
               /\ th'[t].sent = <<>>]_vars

\* The cursor's result wins over the connection's message, on a bad
\* session with the critical flag set.
C24_Witness ==
    \E t \in Threads :
        /\ th[t].pc = "done" /\ th[t].op = "pq_raise"
        /\ th[t].arg.pgres = <<>> /\ th[t].arg.hascurs
        /\ th[t].arg.curs_pgres # <<>>
        /\ th[t].arg.connmsg = <<"FATAL:  terminating connection">>
        /\ th[t].out[1].pgerror = <<"ERROR:  syntax error">>
        /\ th[t].arg.closed = 0 /\ closed = 2 /\ connBad /\ critical


\* The number of non-empty chunks a source gives before anything else.
C25_Lead(src) ==
    CHOOSE n \in 0..Len(src) :
        /\ \A i \in 1..n : src[i] # <<>> /\ src[i] # <<"">>
        /\ n = Len(src) \/ src[n + 1] = <<>> \/ src[n + 1] = <<"">>

\* The source gives non-empty chunks and then the empty string.
C25_ChunksThenEmpty(src) ==
    C25_Lead(src) = Len(src) \/ src[C25_Lead(src) + 1] = <<"">>

\* Frames c1..cn, one success terminator, every queued result retrieved,
\* success when none of them is fatal.
C25_AllSent(f) ==
    /\ f.out.frames = [i \in 1..C25_Lead(f.arg.source) |-> f.arg.source[i][1]]
    /\ f.out.ends = << <<>> >>
    /\ f.out.got = f.arg.queued
    /\ (\A i \in 1..Len(f.arg.queued) : f.arg.queued[i] # "FATAL_ERROR")
       => f.retvalue = 1 /\ f.exc = "none"

C27_CopyDrainsEveryResult ==
    \A t \in Threads :
        /\ th[t].pc = "done"
        /\ th[t].op \in {"_pq_copy_in_v3", "_pq_copy_out_v3"}
        => /\ th[t].out.got = th[t].arg.queued
           /\ (\E i \in 1..Len(th[t].out.got) :
                  th[t].out.got[i] = "FATAL_ERROR")
              => th[t].exc = "BackendError"


\* C28: pq_is_busy and pq_flush return only from conn_notice_process and
\* conn_notifies_process, which they run after their libpq call.
C28_BusyAndFlushDrainNotices ==
    [][\A t \in Threads :
        /\ th[t].op \in {"is_busy", "flush"}
        /\ th[t].pc # "done" /\ th'[t].pc = "done"
        => th[t].pc = "notice"]_vars


\* C29: for a numeric column of declared mod m, with M = m - 4 when m > 0
\* and M = m otherwise, precision is (M >> 16) & 0xFFFF and scale is
\* M & 0xFFFF; for every other column both are None.
C29_NumericPrecisionAndScale ==
    \A t \in Threads :
        th[t].pc = "done" /\ th[t].op = "_pq_fetch_tuples"
        => LET m == th[t].arg.fmod
               M == IF m > 0 THEN m - 4 ELSE m
               d == th[t].out[1]
           IN  IF th[t].arg.ftype = "NUMERICOID"
               THEN /\ d.precision = <<(M \div 65536) % 65536>>
                    /\ d.scale = <<M % 65536>>
               ELSE d.precision = <<>> /\ d.scale = <<>>

\* numeric(10, 2): mod (10 << 16 | 2) + 4.
C29_Witness ==
    \E t \in Threads :
        /\ th[t].pc = "done" /\ th[t].op = "_pq_fetch_tuples"
        /\ th[t].arg.ftype = "NUMERICOID" /\ th[t].arg.fmod = 655366
        /\ th[t].out[1].precision = <<10>> /\ th[t].out[1].scale = <<2>>


\* The decimal text of a natural number.
RECURSIVE C30_Decimal(_)
C30_Decimal(n) ==
    IF n < 10 THEN SubSeq("0123456789", n + 1, n + 1)
    ELSE C30_Decimal(n \div 10)
         \o SubSeq("0123456789", (n % 10) + 1, (n % 10) + 1)

\* C30: rowcount is -1 for a command result whose affected-row text is
\* absent or empty and otherwise the integer the text denotes; -1 for a
\* copy result; the number of tuples for a tuples result.
C30_RowCount ==
    \A t \in Threads :
        th[t].pc = "done" /\ th[t].op = "pq_fetch_rowcount"
        => LET a == th[t].arg
               rowcount == th[t].out[1]
           IN  CASE a.kind = "COMMAND_OK" ->
                      IF a.text = <<>> \/ a.text = <<"">>
                      THEN rowcount = -1
                      ELSE rowcount >= 0 /\ C30_Decimal(rowcount) = a.text[1]
                 [] a.kind \in {"COPY_OUT", "COPY_IN"} -> rowcount = -1
                 [] a.kind = "TUPLES_OK" -> rowcount = a.ntuples


\* C31: a successful asynchronous pq_execute leaves conn->async_status at
\* READ when PQflush returned 0 and at WRITE when it returned 1, and
\* conn->async_cursor at its cursor; a failed one, and every synchronous
\* one, leaves both as they were at the call.
C31_AsyncStatusAfterExecute ==
    \A t \in Threads :
        th[t].pc = "done" /\ th[t].op = "execute"
        => IF th[t].async = 1 /\ th[t].retvalue = 0
           THEN /\ async_cursor = t
                /\ th[t].cerr = 0 => async_status = "READ"
                /\ th[t].cerr = 1 => async_status = "WRITE"
                /\ th[t].cerr \in {0, 1}
           ELSE /\ async_status = th[t].astat0
                /\ async_cursor = th[t].acur0

\* A failed asynchronous execute after a successful one: the first owner
\* and its status are still there.
C31_Witness ==
    \E t \in Threads :
        /\ th[t].pc = "done" /\ th[t].op = "execute"
        /\ th[t].async = 1 /\ th[t].retvalue = -1
        /\ th[t].sent # <<>>
        /\ async_cursor = t /\ async_status = "READ"


\* C32: pq_fetch on a cursor without a result returns 0 and sets no error;
\* otherwise, when it has returned, the cursor holds a result exactly when
\* the result fetched was a tuples result, and it is that result.
C32_ResultKeptOnlyForTuples ==
    \A t \in Threads :
        th[t].pc = "done" /\ th[t].fetched # "none"
        => IF th[t].fetched = "NULL"
           THEN th[t].retvalue = 0 /\ th[t].exc = "none"
           ELSE /\ pgres[t] # "NULL" <=> th[t].fetched = "TUPLES_OK"
                /\ pgres[t] # "NULL" => pgres[t] = th[t].fetched

\* A copy-in result has been fetched and released.
C32_Witness ==
    \E t \in Threads :
        /\ th[t].pc = "done" /\ th[t].fetched = "COPY_IN"
        /\ pgres[t] = "NULL"


\* C33: whenever pq_fetch returns, the cursor having had a result or not,
\* conn->critical is clear, and if it was set just before the return the
\* value returned is -1.
C33_CriticalNeverSurvivesFetch ==
    [][\A t \in Threads :
          th[t].pc # "done" /\ th'[t].pc = "done" /\ th'[t].fetched # "none"
          => /\ critical' = FALSE
             /\ critical => th'[t].retvalue = -1]_vars


\* What ended the read loop of a _pq_copy_in_v3 call that has returned:
\* the source (no read attribute, a failed read(), a non-string), a failed
\* PQputCopyData, or nothing (the empty string was read).
C34_Cause(f) ==
    LET last == CopyRead(f.arg.source, f.out.reads - 1) IN
    IF ~f.arg.readable \/ last = <<>> THEN "read"
    ELSE IF last = <<"">> THEN "none" ELSE "send"

C34_Terminator(cause) ==
    CASE cause = "none" -> <<>>
      [] cause = "read" -> <<"error in .read() call">>
      [] cause = "send" -> <<"error in PQputCopyData() call">>

\* C34: _pq_copy_in_v3 ends the copy with one terminator, whose text tells
\* what ended the loop; it returns -1 when the source or a send failed, and
\* every frame sent precedes the failure.  When PQputCopyEnd itself fails
\* no result is retrieved and closed is 2.
C34_OneTerminatorByCause ==
    \A t \in Threads :
        th[t].pc = "done" /\ th[t].op = "_pq_copy_in_v3"
        => /\ \/ th[t].out.ends = <<C34_Terminator(C34_Cause(th[t]))>>
              \/ /\ th[t].out.ends = <<>> /\ th[t].out.got = <<>>
                 /\ closed = 2 /\ th[t].exc = "BackendError"
           /\ C34_Cause(th[t]) # "none" => th[t].retvalue = -1
           /\ th[t].out.frames =
                  [i \in 1..(th[t].out.reads - 1) |-> th[t].arg.source[i][1]]


(***************************************************************************)
(* Termination.  Every libpq call, callback and wait hook returns, so a    *)
(* thread that can take a step takes one: weak fairness on the steps of    *)
(* the calling threads.  pthread_mutex_lock is the only step that can stay *)
(* disabled.                                                               *)
(***************************************************************************)
SpecLive == Spec /\ \A t \in Callers : WF_vars(Step(t))

\* The positions at pthread_mutex_lock(&conn->lock).
C35_MutexPcs ==
    {"execute_lock", "commit_lock", "abort_lock", "reset_lock",
     "is_busy_lock", "flush_lock", "tuples_lock"}

\* C35: a call of pq_execute, pq_commit, pq_abort, pq_reset, pq_is_busy or
\* pq_flush that waits for conn->lock gets it in the end, whatever calls
\* were made before and however they ended.
C35_NoCallWaitsForeverForTheMutex ==
    \A t \in Threads :
        (/\ th[t].pc \in C35_MutexPcs
         /\ th[t].op \in {"execute", "commit", "abort", "reset", "is_busy",
                          "flush"})
        ~> (th[t].pc \notin C35_MutexPcs)

====
